---- MODULE Spec2Model ----
(***************************************************************************)
(* Model of the Trello school-automation tool: the Canvas and Moodle sync  *)
(* reconcilers (client.go), the marker locator, the metadata formatting    *)
(* and stripping helpers, and the due-date sorter.                         *)
(*                                                                         *)
(* Text is modelled as a sequence of atoms.  Free text is made of the      *)
(* characters "NL" (a newline), "-" and "a"; the fixed literals of the     *)
(* format strings ("Canvas ", " ID: ", ...) are one atom each, and a       *)
(* number is the sequence of its decimal digits.                           *)
(* Time is counted in hours.  A Go time.Time is an instant plus the zone   *)
(* offset it carries; what a layout prints is the wall clock inst + off.   *)
(***************************************************************************)
EXTENDS Integers, Sequences, FiniteSets, TLC

VARIABLES
    cards,      \* the board's cards, in board order (top of a list first)
    nextCard,   \* the id the board service gives the next created card
    clock,      \* the current instant (hours)
    canvas,     \* Canvas: submission state per assignment id
    moodleEdit, \* Moodle: whether the teacher has edited the intro of assignment 1
    cacheFile,  \* trello_cache.json: "absent", "malformed" or "valid"
    lastRun,    \* the report of the sync run that has just ended: what it read,
                \* computed and issued (NoRun once anything else has happened)
    owner,      \* history: record key -> id of the first card created for it (0: none)
    text,       \* text helpers: the description under test
    textOut,    \* text helpers: what the last helper call returned
    redoCase,   \* REDO rule: the title under test; trail[1] is the computed title,
                \* trail[i+1] the title after the i-th application, hist[i] its grade
    zone,       \* the local zone offset (hours) of the machine the tool runs on
    search,     \* name lookup: the call under test, its inputs and what it returned
    sorter,     \* due-date sort: the cards of the list and the target order computed
    sun,        \* sunset cache: sunset_cache.json, the time, and the requests made
    cli,        \* one invocation: its flags and environment, and what main did
    upcoming    \* Canvas filter: the assignments fetched and the ones kept

vars == <<cards, nextCard, clock, canvas, moodleEdit, cacheFile, lastRun, owner,
          text, textOut, redoCase, zone, search, sorter, sun, cli, upcoming>>

\* the variables of the helpers that are exercised on drawn inputs
helperVars == <<search, sorter, sun, cli, upcoming>>

\* what the syncs leave alone
textVars == <<text, textOut, redoCase, helperVars>>

-----------------------------------------------------------------------------
(* Bounds of the model. *)

\* longest free text drawn for the text helpers
MaxLen == 7
\* how many times the REDO rule is applied in a row to one title
MaxApply == 2
\* how many cards the board may hold (creating duplicates stops there)
MaxCards == 4
\* how many days the clock may advance
MaxDays == 1
\* how many boards or lists a name lookup goes through
MaxEntries == 3
\* longest string drawn for normalizeString
MaxName == 4
\* how many cards of a list to sort are drawn freely
MaxSort == 3
\* how many sunset requests are made in a row
MaxCalls == 2
\* how many cards are ever created on the whole board
MaxIds == 4
\* assignments in a list the Canvas filter is applied to
MaxDue == 2

-----------------------------------------------------------------------------
(* Strings: the Go strings package on sequences of atoms. *)

NL == "NL"

\* strings.HasPrefix
HasPrefix(s, p) == Len(p) <= Len(s) /\ SubSeq(s, 1, Len(p)) = p

\* strings.Index, 1-based; 0 when p does not occur in s
Index(s, p) ==
    LET hits == {i \in 1..(Len(s) - Len(p) + 1) : SubSeq(s, i, i + Len(p) - 1) = p}
    IN IF hits = {} THEN 0 ELSE CHOOSE i \in hits : \A j \in hits : i <= j

\* strings.Contains
Contains(s, p) == Index(s, p) # 0

\* strings.TrimPrefix
TrimPrefix(s, p) == IF HasPrefix(s, p) THEN SubSeq(s, Len(p) + 1, Len(s)) ELSE s

IsSpace(c) == c \in {NL, " "}

RECURSIVE TrimLeft(_)
TrimLeft(s) ==
    IF s # <<>> /\ IsSpace(Head(s)) THEN TrimLeft(Tail(s)) ELSE s

RECURSIVE TrimRight(_)
TrimRight(s) ==
    IF s # <<>> /\ IsSpace(s[Len(s)]) THEN TrimRight(SubSeq(s, 1, Len(s) - 1)) ELSE s

\* strings.TrimSpace
TrimSpace(s) == TrimRight(TrimLeft(s))

\* len(strings.Split(s, sep)): one more than the non-overlapping occurrences of sep
RECURSIVE SplitLen(_, _)
SplitLen(s, sep) ==
    LET i == Index(s, sep)
    IN IF i = 0 THEN 1 ELSE 1 + SplitLen(SubSeq(s, i + Len(sep), Len(s)), sep)

\* strings.Split(s, sep)[0]
SplitFirst(s, sep) ==
    LET i == Index(s, sep) IN IF i = 0 THEN s ELSE SubSeq(s, 1, i - 1)

DigitChars == <<"0", "1", "2", "3", "4", "5", "6", "7", "8", "9">>

\* fmt's %d of a non-negative integer
RECURSIVE Digits(_)
Digits(n) ==
    IF n < 10 THEN <<DigitChars[n + 1]>>
    ELSE Digits(n \div 10) \o <<DigitChars[(n % 10) + 1]>>

\* all sequences over S of length at most n
RECURSIVE SeqsUpTo(_, _)
SeqsUpTo(S, n) ==
    IF n = 0 THEN {<<>>}
    ELSE LET shorter == SeqsUpTo(S, n - 1)
         IN shorter \cup {Append(s, c) : s \in {t \in shorter : Len(t) = n - 1}, c \in S}

-----------------------------------------------------------------------------
(* Times.  A Go time.Time is [inst, off]: the instant and the offset of the  *)
(* zone the value carries.  The Trello layout "2006-01-02T15:04:05.000Z"     *)
(* prints the value's wall clock followed by a literal Z, so the board reads *)
(* the wall clock as a UTC instant.                                          *)

\* hours in a calendar day (time.AddDate counts days)
Day == 24

\* Card.Due == nil, and the empty due string
NoDue == -1

\* the zone offsets (hours) the tool is run under: UTC, and UTC-6
Zones == {0, -6}

\* the offset as RFC3339 prints it
ZoneText(off) == IF off = 0 THEN "Z" ELSE "-06:00"

\* time.Now() under local zone tz
Now(now, tz) == [inst |-> now, off |-> tz]

\* time.Unix(sec, 0): the instant, in the local zone
Unix(sec, tz) == [inst |-> sec, off |-> tz]

\* t.AddDate(0, 0, days)
AddDate(t, days) == [t EXCEPT !.inst = @ + days * Day]

\* t.Format(time.RFC3339)
FormatRFC3339(t) == <<"T">> \o Digits(t.inst + t.off) \o <<ZoneText(t.off)>>

\* t.Format("2006-01-02T15:04:05.000Z"): the wall clock of t, read back as UTC
FormatTrello(t) == t.inst + t.off

\* A Canvas due_at string: "" (kind "empty"), a text that is no RFC3339 timestamp
\* (kind "bad"), or the timestamp with wall clock `wall` and offset `off`.
EmptyDueAt == [kind |-> "empty", wall |-> 0, off |-> 0]
BadDueAt == [kind |-> "bad", wall |-> 0, off |-> 0]
DueAtString(wall, off) == [kind |-> "ok", wall |-> wall, off |-> off]

\* the due_at string as text
DueAtText(d) ==
    CASE d.kind = "empty" -> <<>>
      [] d.kind = "bad" -> <<"soon">>
      [] OTHER -> <<"T">> \o Digits(d.wall) \o <<ZoneText(d.off)>>

\* time.Parse(time.RFC3339, s): [ok, t]
ParseRFC3339(d) ==
    IF d.kind = "ok"
    THEN [ok |-> TRUE, t |-> [inst |-> d.wall - d.off, off |-> d.off]]
    ELSE [ok |-> FALSE, t |-> [inst |-> 0, off |-> 0]]

-----------------------------------------------------------------------------
(* Metadata blocks, the REDO rule and the grade threshold. *)

\* the literal "\n\n---\n"
Sep == <<NL, NL, "-", "-", "-", NL>>

RedoPrefix == <<"REDO - ">>

\* the grade below which an assignment must be redone
RedoThreshold == 90

\* days a redo gets from the run time
RedoDays == 7

\* *CanvasSubmission: nil (present = FALSE), or Score nil (scored = FALSE), or a
\* score.  `possible` is the assignment's points_possible on the Canvas side; the
\* CanvasSubmission struct does not decode it and no operation below reads it.
NoSubmission == [present |-> FALSE, scored |-> FALSE, score |-> 0, possible |-> 0]
Ungraded(p) == [present |-> TRUE, scored |-> FALSE, score |-> 0, possible |-> p]
Scored(s, p) == [present |-> TRUE, scored |-> TRUE, score |-> s, possible |-> p]

\* *MoodleGrade: nil (present = FALSE) or {Grade, GradeMax}
NoGrade == [present |-> FALSE, Grade |-> 0, GradeMax |-> 0]
MoodleGrade(g, max) == [present |-> TRUE, Grade |-> g, GradeMax |-> max]

\* fmt.Sprintf("%.1f%%", x) of a whole number x
FormatScore(x) == Digits(x) \o <<".", "0", "%">>

\* fmt.Sprintf("%.1f%%", (g/max)*100): the quotient rounded to one decimal
FormatPercentage(g, max) ==
    LET tenths == (2 * g * 1000 + max) \div (2 * max)
    IN Digits(tenths \div 10) \o <<".">> \o Digits(tenths % 10) \o <<"%">>

formatCanvasMetadata(assignment, courseName, submission) ==
    LET grade == IF submission.present /\ submission.scored
                 THEN FormatScore(submission.score)
                      \o (IF submission.score < RedoThreshold
                          THEN <<" (REDO NEEDED)">> ELSE <<>>)
                 ELSE <<"Not graded">>
    IN Sep \o <<"Canvas ", "Assignment", " ID: ">> \o Digits(assignment.ID)
       \o <<NL, "Course: ">> \o courseName
       \o <<NL, "Original Due Date: ">> \o DueAtText(assignment.DueAt)
       \o <<NL, "Grade: ">> \o grade
       \o <<NL, "Canvas URL: ">> \o assignment.HTMLURL

stripCanvasMetadata_NeedsThreeParts(description) ==
    IF SplitLen(description, Sep) > 2 THEN SplitFirst(description, Sep) ELSE description
stripCanvasMetadata(description) ==
    IF SplitLen(description, Sep) > 1 THEN SplitFirst(description, Sep) ELSE description

\* tz: the local zone of the process, which time.Unix puts on the value
formatMoodleMetadata(a, courseName, grade, tz) ==
    LET due == IF a.DueDateUnix > 0 THEN FormatRFC3339(Unix(a.DueDateUnix, tz)) ELSE <<>>
        gradeStr == IF grade.present /\ grade.GradeMax > 0
                    THEN FormatPercentage(grade.Grade, grade.GradeMax)
                         \o (IF grade.Grade * 100 < RedoThreshold * grade.GradeMax
                             THEN <<" (REDO NEEDED)">> ELSE <<>>)
                    ELSE <<"Not graded">>
        activityType == IF a.Type = "quiz" THEN "Quiz" ELSE "Assignment"
    IN Sep \o <<"Moodle ", activityType, " ID: ">> \o Digits(a.ID)
       \o <<NL, "Course: ">> \o courseName
       \o <<NL, "Original Due Date: ">> \o due
       \o <<NL, "Grade: ">> \o gradeStr
       \o <<NL, "Moodle URL: ">> \o a.URL

\* fmt.Sprintf("%s - %s", courseName, name)
CardTitle(courseName, name) == courseName \o <<" - ">> \o name

\* the REDO prefix rule on a computed title
RedoTitle_NeverStrips(cardTitle, needsRedo) ==
    IF needsRedo /\ ~HasPrefix(cardTitle, RedoPrefix) THEN RedoPrefix \o cardTitle
    ELSE cardTitle
RedoTitle(cardTitle, needsRedo) ==
    IF needsRedo /\ ~HasPrefix(cardTitle, RedoPrefix) THEN RedoPrefix \o cardTitle
    ELSE IF ~needsRedo /\ HasPrefix(cardTitle, RedoPrefix)
         THEN TrimPrefix(cardTitle, RedoPrefix)
         ELSE cardTitle

\* needsRedo of SyncCanvasAssignments
CanvasNeedsRedo(submission) ==
    submission.present /\ submission.scored /\ submission.score < RedoThreshold

\* needsRedo of SyncMoodleAssignments
MoodleNeedsRedo(grade) ==
    grade.present /\ grade.GradeMax > 0
    /\ grade.Grade * 100 < RedoThreshold * grade.GradeMax

\* the passing-grade short-circuit of SyncMoodleAssignments
MoodlePassing(grade) ==
    grade.present /\ grade.GradeMax > 0
    /\ grade.Grade * 100 >= RedoThreshold * grade.GradeMax

-----------------------------------------------------------------------------
(* The remote side: what Canvas and Moodle hold. *)

\* the instant of the first run
StartClock == 40 * Day

\* GET /courses: the Canvas courses, and a course name by id
CanvasCourseName(courseID) == IF courseID = 1 THEN <<"Bio">> ELSE <<"Chem">>

\* GET /courses/:id/assignments, in the order Canvas returns them.  Assignment 12
\* carries an old metadata block in its description; assignment 3 has no due date.
CanvasAssignments ==
    << [ID |-> 1, Name |-> <<"HW">>, Description |-> <<"a">>,
        DueAt |-> DueAtString(StartClock + 3 * Day, 0), CourseID |-> 1,
        HTMLURL |-> <<"u1">>],
       [ID |-> 12, Name |-> <<"Lab">>,
        Description |-> <<"a">> \o Sep \o <<"Canvas ", "Assignment", " ID: ", "9">>,
        DueAt |-> DueAtString(StartClock + 2 * Day, 0), CourseID |-> 1,
        HTMLURL |-> <<"u12">>],
       [ID |-> 3, Name |-> <<"Draft">>, Description |-> <<>>,
        DueAt |-> EmptyDueAt, CourseID |-> 1, HTMLURL |-> <<"u3">>] >>

CanvasIds == {CanvasAssignments[i].ID : i \in DOMAIN CanvasAssignments}

\* the submissions a teacher's grading can leave on an assignment
Submissions == {NoSubmission, Scored(45, 50), Scored(95, 200)}

\* the assignments whose submission changes in the model
GradedIds == {12}

\* mod_assign_get_assignments: the Moodle assignments; the teacher's edit of
\* assignment 1 puts a horizontal rule into its intro
MoodleAssignmentList(edited) ==
    << [ID |-> 1, Name |-> <<"Essay">>,
        Intro |-> IF edited THEN <<"a">> \o Sep \o <<"b">> ELSE <<NL, "a", NL>>,
        CourseID |-> 5, DueDateUnix |-> StartClock + 4 * Day, URL |-> <<"m1">>,
        Type |-> "assignment"] >>

\* mod_quiz_get_quizzes_by_courses, converted to MoodleAssignment by GetQuizzes
MoodleQuizList ==
    << [ID |-> 1, Name |-> <<"Quiz">>, Intro |-> <<"a">>, CourseID |-> 5,
        DueDateUnix |-> StartClock + 5 * Day, URL |-> <<"q1">>, Type |-> "quiz"] >>

\* what GetAssignmentGrade would return for a record: the student has 95 of 100
\* on the quiz, and no grade yet on the assignment
GetAssignmentGrade(a) == IF a.Type = "quiz" THEN MoodleGrade(95, 100) ELSE NoGrade

\* the grade SyncMoodleAssignments works with: "var grade *MoodleGrade" is never
\* assigned, the call of GetAssignmentGrade being commented out
SyncMoodleGrade_Fetched(a) == GetAssignmentGrade(a)
SyncMoodleGrade(a) == NoGrade

\* courseNames[a.CourseID]
MoodleCourseName(courseID) == IF courseID = 5 THEN <<"Math">> ELSE <<>>

\* the key of a remote record: source system, kind, id
Key(src, kind, id) == [src |-> src, kind |-> kind, id |-> id]

Keys ==
    {Key("Canvas", "Assignment", id) : id \in CanvasIds}
    \cup {Key("Moodle", "Assignment", 1), Key("Moodle", "Quiz", 1)}

MoodleKey(a) == Key("Moodle", IF a.Type = "quiz" THEN "Quiz" ELSE "Assignment", a.ID)

\* the filter of (*CanvasClient).GetUpcomingAssignments over the assignments
\* of the courses: due date present, parsable, before now + 14 days and after
\* now - 1 day
UpcomingFilter_Inclusive(assignments, now, tz) ==
    LET twoWeeksFromNow == AddDate(Now(now, tz), 14)
        dayAgo == AddDate(Now(now, tz), -1)
        Upcoming(a) ==
            /\ a.DueAt.kind # "empty"
            /\ ParseRFC3339(a.DueAt).ok
            /\ ParseRFC3339(a.DueAt).t.inst <= twoWeeksFromNow.inst
            /\ ParseRFC3339(a.DueAt).t.inst >= dayAgo.inst
    IN SelectSeq(assignments, Upcoming)
UpcomingFilter(assignments, now, tz) ==
    LET twoWeeksFromNow == AddDate(Now(now, tz), 14)
        dayAgo == AddDate(Now(now, tz), -1)
        Upcoming(a) ==
            /\ a.DueAt.kind # "empty"
            /\ ParseRFC3339(a.DueAt).ok
            /\ ParseRFC3339(a.DueAt).t.inst < twoWeeksFromNow.inst
            /\ ParseRFC3339(a.DueAt).t.inst > dayAgo.inst
    IN SelectSeq(assignments, Upcoming)

\* (*CanvasClient).GetUpcomingAssignments
CanvasGetUpcomingAssignments(now, tz) == UpcomingFilter(CanvasAssignments, now, tz)

NoUpcoming == [input |-> <<>>, done |-> FALSE, kept |-> <<>>]

\* (*MoodleClient).GetUpcomingAssignments: assignments then quizzes, with a due
\* date after now - 24h and before toDate + 24h
MoodleGetUpcomingAssignments(edited, now, toDate) ==
    LET all == MoodleAssignmentList(edited) \o MoodleQuizList
        Upcoming(a) ==
            /\ a.DueDateUnix # 0
            /\ a.DueDateUnix > now - Day
            /\ a.DueDateUnix < toDate + Day
    IN SelectSeq(all, Upcoming)

-----------------------------------------------------------------------------
(* The board service. *)

WeeklyList == "Weekly"

\* POST /cards: the new card goes to the bottom of its list
CreateCard(cs, id, listID, name, desc, due) ==
    Append(cs, [id |-> id, name |-> name, desc |-> desc, due |-> due,
                dueComplete |-> FALSE, list |-> listID])

\* PUT /cards/:id with due and dueComplete
UpdateCard(cs, cardID, due, dueComplete) ==
    [i \in DOMAIN cs |->
        IF cs[i].id = cardID
        THEN [cs[i] EXCEPT !.due = due, !.dueComplete = dueComplete]
        ELSE cs[i]]

\* PUT /cards/:id with desc
UpdateCardDescription(cs, cardID, description) ==
    [i \in DOMAIN cs |->
        IF cs[i].id = cardID THEN [cs[i] EXCEPT !.desc = description] ELSE cs[i]]

\* PUT /cards/:id with pos=top
UpdateCardPosition(cs, cardID) ==
    LET IsIt(c) == c.id = cardID
        IsNot(c) == c.id # cardID
    IN SelectSeq(cs, IsIt) \o SelectSeq(cs, IsNot)

\* GET /lists/:id/cards
GetCardsInList(cs, listID) ==
    LET InList(c) == c.list = listID IN SelectSeq(cs, InList)

\* DELETE /cards/:id
DeleteCard(cs, cardID) ==
    LET IsNot(c) == c.id # cardID IN SelectSeq(cs, IsNot)

\* PUT /cards/:id with name
UpdateCardTitle(cs, cardID, title) ==
    [i \in DOMAIN cs |->
        IF cs[i].id = cardID THEN [cs[i] EXCEPT !.name = title] ELSE cs[i]]

\* the lists of trello_cache.json and the board each belongs to
DailyList == "Daily"
SundownList == "Sundown Notification (DO NOT ALTER)"
MacList == "To Do"
SchoolBoard == "Makai School"
MacBoard == "Mac"
BoardOf(listID) == IF listID = MacList THEN MacBoard ELSE SchoolBoard

\* LoadCache: an error unless trello_cache.json is there and parses
LoadCache(file) == [err |-> file # "valid"]

\* FindListByName: the id of the list (a list's id is its name here), or the
\* error of LoadCache or of the lookup
FindListByName_WithoutCache(file, boardName, listName) ==
    [err |-> BoardOf(listName) # boardName, id |-> listName]
FindListByName(file, boardName, listName) ==
    IF LoadCache(file).err \/ BoardOf(listName) # boardName
    THEN [err |-> TRUE, id |-> ""]
    ELSE [err |-> FALSE, id |-> listName]

\* GET /boards/:id/cards for the board named boardName
GetAllBoardCards(cs, boardName) ==
    LET OnBoard(c) == BoardOf(c.list) = boardName IN SelectSeq(cs, OnBoard)

\* DeleteAllCardsFromList, where the failAt-th DELETE fails (0: none does):
\* the cards of the list are deleted in order up to the first failure
DeleteAllCardsFromList_KeepsLast(cs, listID, failAt) ==
    LET inList == GetCardsInList(cs, listID)
        gone == {inList[i].id : i \in 1..(Len(inList) - 1)}
        Stays(c) == c.id \notin gone
    IN [cards |-> SelectSeq(cs, Stays), err |-> FALSE]
DeleteAllCardsFromList(cs, listID, failAt) ==
    LET inList == GetCardsInList(cs, listID)
        fails == failAt \in 1..Len(inList)
        gone == {inList[i].id : i \in 1..(IF fails THEN failAt - 1 ELSE Len(inList))}
        Stays(c) == c.id \notin gone
    IN [cards |-> SelectSeq(cs, Stays), err |-> fails]

\* the index in cs of the first card whose description contains pattern; 0: nil
FirstCardContaining(cs, pattern) ==
    LET hits == {i \in DOMAIN cs : Contains(cs[i].desc, pattern)}
    IN IF hits = {} THEN 0 ELSE CHOOSE i \in hits : \A j \in hits : i <= j

\* pattern := fmt.Sprintf("Canvas %s ID: %d", canvasType, canvasID)
CanvasPattern(canvasID, canvasType) == <<"Canvas ", canvasType, " ID: ">> \o Digits(canvasID)

FindCardByCanvasID(cs, canvasID, canvasType) ==
    FirstCardContaining(cs, CanvasPattern(canvasID, canvasType))

\* pattern := fmt.Sprintf("Moodle Assignment ID: %d", moodleID)
MoodlePattern(moodleID) == <<"Moodle ", "Assignment", " ID: ">> \o Digits(moodleID)

FindCardByMoodleAssignmentID(cs, moodleID) ==
    FirstCardContaining(cs, MoodlePattern(moodleID))

\* the comparator of SortCardsByDueDate
LessByDue(cardI, cardJ) ==
    IF cardI.due = NoDue /\ cardJ.due = NoDue THEN FALSE
    ELSE IF cardI.due = NoDue THEN FALSE
    ELSE IF cardJ.due = NoDue THEN TRUE
    ELSE cardI.due < cardJ.due

\* sort.Slice on at most 12 elements is an insertion sort: each element moves
\* left while it is less than its left neighbour
RECURSIVE InsertLeft(_, _)
InsertLeft(sorted, x) ==
    IF sorted # <<>> /\ LessByDue(x, sorted[Len(sorted)])
    THEN Append(InsertLeft(SubSeq(sorted, 1, Len(sorted) - 1), x), sorted[Len(sorted)])
    ELSE Append(sorted, x)

RECURSIVE InsertionSort(_)
InsertionSort(s) ==
    IF s = <<>> THEN <<>>
    ELSE InsertLeft(InsertionSort(SubSeq(s, 1, Len(s) - 1)), s[Len(s)])

\* the reposition loop of SortCardsByDueDate from rank i down to rank 1, where
\* the PUT for the ranks in failing fails (a warning, and the loop goes on)
RECURSIVE MoveToTop_FirstRankFirst(_, _, _, _)
MoveToTop_FirstRankFirst(cs, sorted, i, failing) ==
    IF i = 0 THEN cs
    ELSE LET rank == Len(sorted) - i + 1
         IN MoveToTop_FirstRankFirst(
                IF rank \in failing THEN cs ELSE UpdateCardPosition(cs, sorted[rank].id),
                sorted, i - 1, failing)
RECURSIVE MoveToTop(_, _, _, _)
MoveToTop(cs, sorted, i, failing) ==
    IF i = 0 THEN cs
    ELSE MoveToTop(IF i \in failing THEN cs ELSE UpdateCardPosition(cs, sorted[i].id),
                   sorted, i - 1, failing)

\* the ids the reposition loop sends a PUT for, in the order it sends them
Moves(sorted) == [k \in DOMAIN sorted |-> sorted[Len(sorted) - k + 1].id]

\* the reposition loop with every PUT succeeding
MoveAllToTop(cs, sorted, i) == MoveToTop(cs, sorted, i, {})

SortCardsByDueDate(cs, listID) ==
    LET inList == GetCardsInList(cs, listID)
    IN IF Len(inList) <= 1 THEN cs
       ELSE MoveAllToTop(cs, InsertionSort(inList), Len(inList))

-----------------------------------------------------------------------------
(* The reconcilers.  A run keeps, per remote record it processed, what it    *)
(* computed and the board calls it issued (with their outcome).              *)

Op(op, card, listID, name, desc, due, ok) ==
    [op |-> op, card |-> card, list |-> listID, name |-> name, desc |-> desc,
     due |-> due, ok |-> ok]

\* the marker a sync writes into the card of record k
WrittenMarker(k) == <<k.src \o " ", k.kind, " ID: ">> \o Digits(k.id)

CardById(cs, id) == cs[CHOOSE i \in DOMAIN cs : cs[i].id = id]

HasCard(cs, id) == \E i \in DOMAIN cs : cs[i].id = id

\* history: the card first created for k is on the board with k's marker in it
MarkerIntact(cs, own, k) ==
    own[k] # 0 /\ HasCard(cs, own[k]) /\ Contains(CardById(cs, own[k]).desc, WrittenMarker(k))

\* history: no card created for a record has lost that record's marker
MarkersKept(cs, own) == \A k \in Keys : own[k] # 0 => MarkerIntact(cs, own, k)

\* the due date of SyncCanvasAssignments
CanvasDueDate(needsRedo, assignment, now, tz) ==
    IF needsRedo THEN FormatTrello(AddDate(Now(now, tz), RedoDays))
    ELSE IF assignment.DueAt.kind # "empty"
         THEN (IF ParseRFC3339(assignment.DueAt).ok
               THEN FormatTrello(ParseRFC3339(assignment.DueAt).t)
               ELSE NoDue)
         ELSE NoDue

\* the due date of SyncMoodleAssignments
MoodleDueDate(a, tz) ==
    IF a.DueDateUnix > 0 THEN FormatTrello(Unix(a.DueDateUnix, tz)) ELSE NoDue

\* one iteration of the loop of SyncCanvasAssignments, on acc = [cards, nextCard, items]
\* failure: "none", or the call that fails for this assignment: "course"
\* (GetCourseNameByID), "submission" (GetSubmission) or "board" (CreateCard,
\* UpdateCard)
CanvasStep(acc, assignment, remote, allCards, own, now, tz, failure) ==
    LET fail == failure = "board"
        courseName == IF failure = "course"
                      THEN <<"Course ">> \o Digits(assignment.CourseID)
                      ELSE CanvasCourseName(assignment.CourseID)
        submission == IF failure = "submission" THEN NoSubmission ELSE remote
        k == Key("Canvas", "Assignment", assignment.ID)
        existing == FindCardByCanvasID(allCards, assignment.ID, "Assignment")
        needsRedo == CanvasNeedsRedo(submission)
        cardTitle == RedoTitle(CardTitle(courseName, assignment.Name), needsRedo)
        fullDescription == stripCanvasMetadata(assignment.Description)
                           \o formatCanvasMetadata(assignment, courseName, submission)
        dueDate == CanvasDueDate(needsRedo, assignment, now, tz)
        item == [key |-> k, rec |-> assignment, grade |-> submission,
                 remote |-> remote,
                 needsRedo |-> needsRedo, title |-> cardTitle,
                 desc |-> fullDescription, due |-> dueDate,
                 found |-> IF existing = 0 THEN 0 ELSE allCards[existing].id,
                 stored |-> IF existing = 0 THEN <<>> ELSE allCards[existing].desc,
                 storedName |-> IF own[k] # 0 /\ HasCard(allCards, own[k])
                                THEN CardById(allCards, own[k]).name ELSE <<>>,
                 plan |-> IF existing = 0 THEN "create" ELSE "update",
                 owner |-> own[k], intact |-> MarkerIntact(allCards, own, k),
                 ops |-> <<>>]
    IN IF existing # 0
       THEN [cards |-> IF fail THEN acc.cards
                       ELSE UpdateCard(acc.cards, allCards[existing].id, dueDate, FALSE),
             nextCard |-> acc.nextCard,
             items |-> Append(acc.items,
                 [item EXCEPT !.ops = <<Op("updateDue", allCards[existing].id, "", <<>>,
                                           <<>>, dueDate, ~fail)>>])]
       ELSE [cards |-> IF fail THEN acc.cards
                       ELSE CreateCard(acc.cards, acc.nextCard, WeeklyList, cardTitle,
                                       fullDescription, dueDate),
             nextCard |-> IF fail THEN acc.nextCard ELSE acc.nextCard + 1,
             items |-> Append(acc.items,
                 [item EXCEPT !.ops = <<Op("create", IF fail THEN 0 ELSE acc.nextCard,
                                           WeeklyList, cardTitle, fullDescription,
                                           dueDate, ~fail)>>])]

RECURSIVE CanvasLoop_StopsAtFailure(_, _, _, _, _, _, _, _)
CanvasLoop_StopsAtFailure(acc, assignments, i, subs, allCards, own, nowtz, failure) ==
    IF i > Len(assignments) \/ (failure.item # 0 /\ i > failure.item) THEN acc
    ELSE CanvasLoop_StopsAtFailure(
            CanvasStep(acc, assignments[i], subs[assignments[i].ID], allCards, own,
                       nowtz[1], nowtz[2],
                       IF failure.item = i THEN failure.call ELSE "none"),
            assignments, i + 1, subs, allCards, own, nowtz, failure)
RECURSIVE CanvasLoop(_, _, _, _, _, _, _, _)
CanvasLoop(acc, assignments, i, subs, allCards, own, nowtz, failure) ==
    IF i > Len(assignments) THEN acc
    ELSE CanvasLoop(
            CanvasStep(acc, assignments[i], subs[assignments[i].ID], allCards, own,
                       nowtz[1], nowtz[2],
                       IF failure.item = i THEN failure.call ELSE "none"),
            assignments, i + 1, subs, allCards, own, nowtz, failure)

\* one iteration of the loop of SyncMoodleAssignments
MoodleStep_WritesInDryRun(acc, a, allCards, own, tz, dryRun, failure) ==
    LET existing == FindCardByMoodleAssignmentID(allCards, a.ID)
    IN [cards |-> IF existing # 0
                  THEN UpdateCard(acc.cards, allCards[existing].id, NoDue, FALSE)
                  ELSE CreateCard(acc.cards, acc.nextCard, WeeklyList, a.Name, <<>>,
                                  NoDue),
        nextCard |-> IF existing # 0 THEN acc.nextCard ELSE acc.nextCard + 1,
        items |-> acc.items]
MoodleStep(acc, a, allCards, own, tz, dryRun, failure) ==
    LET fail == failure = "board"
        courseName == IF MoodleCourseName(a.CourseID) = <<>>
                      THEN <<"Course ">> \o Digits(a.CourseID)
                      ELSE MoodleCourseName(a.CourseID)
        k == MoodleKey(a)
        grade == SyncMoodleGrade(a)
        needsRedo == MoodleNeedsRedo(grade)
        cardTitle == RedoTitle(CardTitle(courseName, a.Name), needsRedo)
        meta == formatMoodleMetadata(a, courseName, grade, tz)
        fullDescription == TrimSpace(a.Intro) \o meta
        dueDate == MoodleDueDate(a, tz)
        existing == FindCardByMoodleAssignmentID(allCards, a.ID)
        cardID == IF existing = 0 THEN 0 ELSE allCards[existing].id
        differs == existing # 0 /\ allCards[existing].desc # fullDescription
        item == [key |-> k, rec |-> a, grade |-> grade,
                 remote |-> GetAssignmentGrade(a),
                 needsRedo |-> needsRedo, title |-> cardTitle,
                 desc |-> fullDescription, due |-> dueDate,
                 found |-> cardID,
                 stored |-> IF existing = 0 THEN <<>> ELSE allCards[existing].desc,
                 storedName |-> IF own[k] # 0 /\ HasCard(allCards, own[k])
                                THEN CardById(allCards, own[k]).name ELSE <<>>,
                 plan |-> IF existing = 0 THEN "create" ELSE "update",
                 owner |-> own[k], intact |-> MarkerIntact(allCards, own, k),
                 ops |-> <<>>]
    IN IF MoodlePassing(grade) THEN acc
       ELSE IF dryRun THEN [acc EXCEPT !.items = Append(@, item)]
       ELSE IF existing # 0
       THEN [cards |->
                IF fail THEN acc.cards
                ELSE LET dued == UpdateCard(acc.cards, cardID, dueDate, FALSE)
                     IN IF differs
                        THEN UpdateCardDescription(dued, cardID, fullDescription)
                        ELSE dued,
             nextCard |-> acc.nextCard,
             items |-> Append(acc.items,
                 [item EXCEPT !.ops =
                     <<Op("updateDue", cardID, "", <<>>, <<>>, dueDate, ~fail)>>
                     \o (IF differs
                         THEN <<Op("updateDesc", cardID, "", <<>>, fullDescription,
                                   NoDue, ~fail)>>
                         ELSE <<>>)])]
       ELSE [cards |-> IF fail THEN acc.cards
                       ELSE CreateCard(acc.cards, acc.nextCard, WeeklyList, cardTitle,
                                       fullDescription, dueDate),
             nextCard |-> IF fail THEN acc.nextCard ELSE acc.nextCard + 1,
             items |-> Append(acc.items,
                 [item EXCEPT !.ops = <<Op("create", IF fail THEN 0 ELSE acc.nextCard,
                                           WeeklyList, cardTitle, fullDescription,
                                           dueDate, ~fail)>>])]

RECURSIVE MoodleLoop(_, _, _, _, _, _, _, _)
MoodleLoop(acc, assignments, i, allCards, own, tz, dryRun, failure) ==
    IF i > Len(assignments) THEN acc
    ELSE MoodleLoop(
            MoodleStep(acc, assignments[i], allCards, own, tz, dryRun,
                       IF failure.item = i THEN failure.call ELSE "none"),
            assignments, i + 1, allCards, own, tz, dryRun, failure)

\* what a run read: the records and their grades
Batch(items) == [i \in DOMAIN items |-> [rec |-> items[i].rec, grade |-> items[i].grade]]

AllOk(items) ==
    \A i \in DOMAIN items : \A j \in DOMAIN items[i].ops : items[i].ops[j].ok

\* history: the first card created for each record
OwnerAfter(own, items) ==
    [k \in Keys |->
        IF own[k] # 0 THEN own[k]
        ELSE LET made == {i \in DOMAIN items :
                             /\ items[i].key = k
                             /\ items[i].ops # <<>>
                             /\ items[i].ops[1].op = "create"
                             /\ items[i].ops[1].ok}
             IN IF made = {} THEN 0
                ELSE items[CHOOSE i \in made : \A j \in made : i <= j].ops[1].card]

\* no call fails
NoFailure == [item |-> 0, call |-> "none"]

NoRun ==
    [source |-> "none", dryRun |-> FALSE, err |-> FALSE, now |-> 0, tz |-> 0,
     items |-> <<>>, repeat |-> FALSE, sorted |-> FALSE, markersKept |-> TRUE,
     batch |-> <<>>, failure |-> NoFailure]

\* the run repeats the one before it: same source, zone and batch, that one a
\* real run in which every call succeeded
Repeats(source, tz, items) ==
    /\ lastRun.source = source
    /\ ~lastRun.err /\ ~lastRun.dryRun
    /\ lastRun.tz = tz
    /\ AllOk(lastRun.items)
    /\ Batch(lastRun.items) = Batch(items)

-----------------------------------------------------------------------------
(* Name lookup: normalizeString, findBoardByName, findListByName. *)

\* strings.ToLower, on the letters of the model
ToLower(s) == [i \in DOMAIN s |-> CASE s[i] = "A" -> "a" [] s[i] = "B" -> "b" [] OTHER -> s[i]]

normalizeString_KeepsCase(s) == TrimSpace(s)
normalizeString(s) == ToLower(TrimSpace(s))

\* the index of the first entry that satisfies Test; 0 if there is none
FirstIndex(entries, Test(_)) ==
    LET hits == {i \in DOMAIN entries : Test(entries[i])}
    IN IF hits = {} THEN 0 ELSE CHOOSE i \in hits : \A j \in hits : i <= j

\* findBoardByName: the index of the board returned, 0 for the error
findBoardByName_OnePass(boards, boardName) ==
    LET boardNameNorm == normalizeString(boardName)
        Partial(board) == Contains(normalizeString(board.Name), boardNameNorm)
    IN FirstIndex(boards, Partial)
findBoardByName(boards, boardName) ==
    LET boardNameNorm == normalizeString(boardName)
        Exact(board) == normalizeString(board.Name) = boardNameNorm
        Partial(board) == Contains(normalizeString(board.Name), boardNameNorm)
    IN IF FirstIndex(boards, Exact) # 0 THEN FirstIndex(boards, Exact)
       ELSE FirstIndex(boards, Partial)

\* findListByName: the index of the list returned, 0 for the error
findListByName_AnyBoardPartial(lists, boardID, listName) ==
    LET listNameNorm == normalizeString(listName)
        Exact(list) == list.BoardID = boardID /\ normalizeString(list.Name) = listNameNorm
        Partial(list) == Contains(normalizeString(list.Name), listNameNorm)
    IN IF FirstIndex(lists, Exact) # 0 THEN FirstIndex(lists, Exact)
       ELSE FirstIndex(lists, Partial)
findListByName(lists, boardID, listName) ==
    LET listNameNorm == normalizeString(listName)
        Exact(list) == list.BoardID = boardID /\ normalizeString(list.Name) = listNameNorm
        Partial(list) ==
            list.BoardID = boardID /\ Contains(normalizeString(list.Name), listNameNorm)
    IN IF FirstIndex(lists, Exact) # 0 THEN FirstIndex(lists, Exact)
       ELSE FirstIndex(lists, Partial)

NoSearch == [fn |-> "none", entries |-> <<>>, boardID |-> "", query |-> <<>>,
             done |-> FALSE, result |-> 0, norm |-> <<>>, again |-> <<>>]

\* sort.Slice sorts up to 12 elements by insertion, which is stable; above that
\* it runs pattern-defeating quicksort, and "the sort is not guaranteed to be
\* stable"
MaxInsertion == 12

\* s with the elements at i and i + 1 exchanged
SwapAt(s, i) == [k \in DOMAIN s |-> IF k = i THEN s[i + 1] ELSE IF k = i + 1 THEN s[i] ELSE s[k]]

\* the orders sort.Slice(cards, less) can leave: the stable one, or above 12
\* elements one with two neighbours the comparator does not order exchanged
SliceOutcomes(s) ==
    LET stable == InsertionSort(s)
        ties == {i \in 1..(Len(s) - 1) :
                    ~LessByDue(stable[i], stable[i + 1]) /\ ~LessByDue(stable[i + 1], stable[i])}
    IN IF Len(s) <= MaxInsertion THEN {stable}
       ELSE {stable} \cup {SwapAt(stable, i) : i \in ties}

NoSort ==
    [input |-> <<>>, done |-> FALSE, target |-> <<>>, failing |-> {}, moves |-> <<>>,
     after |-> <<>>]

\* the days of a fetched window
WindowDays == 30

\* sunset_cache.json: missing, not parsable, or a SunsetCache whose Data holds
\* the days from..from + 29
NoCacheFile == [kind |-> "absent", loc |-> "", until |-> 0, data |-> {}]
BadCacheFile == [kind |-> "invalid", loc |-> "", until |-> 0, data |-> {}]
SunsetCache(loc, from) ==
    [kind |-> "cache", loc |-> loc, until |-> (from + WindowDays) * Day,
     data |-> from..(from + WindowDays - 1)]

\* time.Now().Format("2006-01-02"): the local date, as a day number
Today(now, tz) == (now + tz) \div Day

\* checkSunsetCache(dateStr, lat, lng) != ""
checkSunsetCache_AnyLocation(file, dateStr, loc, now) ==
    /\ file.kind = "cache"
    /\ ~(now > file.until)
    /\ dateStr \in file.data
checkSunsetCache(file, dateStr, loc, now) ==
    /\ file.kind = "cache"
    /\ file.loc = loc
    /\ ~(now > file.until)
    /\ dateStr \in file.data

\* the answers of the sunset service: the whole window; the window without a
\* usable entry for its first day; no answer; a status other than 200; a body
\* that is not the expected JSON
SunsetReplies == {"ok", "no-today", "error", "status", "unparsable"}
ProviderFailed(reply) == reply \in {"error", "status", "unparsable"}

\* the formatted sunset time of a day, and the empty string
SunsetOf(day) == <<"sunset", day>>
NoTime == <<>>

\* fetchAndCacheSunsetData(lat, lng, startDate): one GET for startDate..startDate
\* + 29.  A failed call returns the error and leaves the file; an answer is
\* written to the file with the dates it has a usable entry for, and the time of
\* startDate is returned, or an error when the answer holds none
fetchAndCacheSunsetData_WritesBeforeCall(file, loc, startDate, reply) ==
    LET built == [SunsetCache(loc, startDate) EXCEPT
                     !.data = IF reply = "ok" THEN @
                              ELSE IF reply = "no-today" THEN @ \ {startDate} ELSE {}]
    IN [fetches |-> 1,
        window |-> <<startDate, startDate + WindowDays - 1>>,
        err |-> reply # "ok",
        time |-> IF reply = "ok" THEN SunsetOf(startDate) ELSE NoTime,
        file |-> built]
fetchAndCacheSunsetData(file, loc, startDate, reply) ==
    LET built == [SunsetCache(loc, startDate) EXCEPT
                     !.data = IF reply = "no-today" THEN @ \ {startDate} ELSE @]
    IN [fetches |-> 1,
        window |-> <<startDate, startDate + WindowDays - 1>>,
        err |-> reply # "ok",
        time |-> IF reply = "ok" THEN SunsetOf(startDate) ELSE NoTime,
        file |-> IF ProviderFailed(reply) THEN file ELSE built]

\* GetSundownTime(lat, lng)
GetSundownTime(file, loc, now, tz, reply) ==
    LET today == Today(now, tz)
    IN IF checkSunsetCache(file, today, loc, now)
       THEN [fetches |-> 0, window |-> <<>>, err |-> FALSE, time |-> SunsetOf(today),
             file |-> file]
       ELSE fetchAndCacheSunsetData(file, loc, today, reply)

NoSun == [file |-> NoCacheFile, now |-> 0, log |-> <<>>]

\* the operations main selects, in the order it tests their flags
MainOps ==
    <<"refresh", "daily-reset", "create-weekly", "test-canvas", "test-moodle",
      "sync-canvas", "sync-moodle", "sync-moodle-dry-run", "sync-jira",
      "sundown-notify", "export-moodle", "export-canvas", "cache", "board-list",
      "boards">>

\* a date flag or variable: not set, not a date, a date
DateTexts == {"", "soon", "2026-01-31"}

\* time.Parse("2006-01-02", text) fails
BadDate(date) == date = "soon"

\* the end date of the Moodle sync: --moodle-to, else MOODLE_SYNC_TO, else a
\* default; the name of what failed to parse, or "none"
MoodleEndDate(c) ==
    IF c.moodleTo # "" THEN (IF BadDate(c.moodleTo) THEN "--moodle-to" ELSE "none")
    ELSE IF c.envTo # "" THEN (IF BadDate(c.envTo) THEN "MOODLE_SYNC_TO" ELSE "none")
    ELSE "none"

\* the end date of an export: --export-to, else the end of the year
ExportEndDate(c) == IF c.exportTo # "" /\ BadDate(c.exportTo) THEN "--export-to" ELSE "none"

\* what main did: the remote services called, in order, and the fatal error
\* that ended it ("none": it returned)
Did(calls, fatal) == [calls |-> calls, fatal |-> fatal]

\* the fatal errors of the configuration
ConfigErrors ==
    {"trello credentials", "canvas credentials", "moodle credentials",
     "--moodle-to", "MOODLE_SYNC_TO", "--export-to"}

\* main with the flags and environment c; canvasUp: GetCurrentUser answers
main(c) ==
    IF ~c.trello THEN Did(<<>>, "trello credentials")
    ELSE CASE c.op \in {"refresh", "daily-reset", "create-weekly", "sync-jira",
                        "sundown-notify", "board-list", "boards"} ->
                 Did(<<"trello">>, "none")
           [] c.op = "cache" -> Did(<<>>, "none")
           [] c.op = "test-canvas" ->
                 IF ~c.canvas THEN Did(<<>>, "canvas credentials")
                 ELSE Did(<<"canvas">>, IF c.canvasUp THEN "none" ELSE "canvas")
           [] c.op = "sync-canvas" ->
                 IF ~c.canvas THEN Did(<<>>, "canvas credentials")
                 ELSE IF ~c.canvasUp THEN Did(<<"canvas">>, "canvas")
                 ELSE Did(<<"canvas", "canvas", "trello">>, "none")
           [] c.op = "test-moodle" ->
                 IF ~c.moodle THEN Did(<<>>, "moodle credentials")
                 ELSE Did(<<"moodle">>, "none")
           [] c.op \in {"sync-moodle", "sync-moodle-dry-run"} ->
                 IF ~c.moodle THEN Did(<<>>, "moodle credentials")
                 ELSE IF MoodleEndDate(c) # "none" THEN Did(<<>>, MoodleEndDate(c))
                 ELSE Did(<<"moodle", "trello">>, "none")
           [] c.op = "export-moodle" ->
                 IF ~c.moodle THEN Did(<<>>, "moodle credentials")
                 ELSE IF ExportEndDate(c) # "none" THEN Did(<<>>, ExportEndDate(c))
                 ELSE Did(<<"moodle">>, "none")
           [] c.op = "export-canvas" ->
                 IF ~c.canvas THEN Did(<<>>, "canvas credentials")
                 ELSE IF ~c.canvasUp THEN Did(<<"canvas">>, "canvas")
                 ELSE IF ExportEndDate(c) # "none"
                 THEN Did(<<"canvas">>, ExportEndDate(c))
                 ELSE Did(<<"canvas", "canvas">>, "none")

NoCli ==
    [op |-> "none", trello |-> FALSE, canvas |-> FALSE, moodle |-> FALSE,
     canvasUp |-> FALSE, moodleTo |-> "", envTo |-> "", exportTo |-> "",
     done |-> FALSE, did |-> Did(<<>>, "none")]

\* no helper call is under test
NoHelpers ==
    /\ search = NoSearch /\ sorter = NoSort /\ sun = NoSun /\ cli = NoCli
    /\ upcoming = NoUpcoming

-----------------------------------------------------------------------------
(* The sync state machine. *)

NoArg == [rec |-> <<>>, course |-> <<>>, grade |-> <<>>]
NoText == [fn |-> "none", out |-> <<>>, arg |-> NoArg]
NoRedoCase == [active |-> FALSE, course |-> <<>>, name |-> <<>>, trail |-> <<>>,
               hist |-> <<>>]

Init ==
    /\ cards = <<>>
    /\ nextCard = 1
    /\ clock = StartClock
    /\ canvas = [id \in CanvasIds |-> NoSubmission]
    /\ moodleEdit = FALSE
    /\ cacheFile \in {"absent", "valid"}
    /\ lastRun = NoRun
    /\ owner = [k \in Keys |-> 0]
    /\ text = <<>>
    /\ textOut = NoText
    /\ redoCase = NoRedoCase
    /\ zone \in Zones
    /\ NoHelpers

\* a day passes
Tick ==
    /\ clock < StartClock + MaxDays * Day
    /\ clock' = clock + Day
    /\ UNCHANGED <<cards, nextCard, canvas, moodleEdit, cacheFile, owner>>
    /\ lastRun' = NoRun
    /\ UNCHANGED zone
    /\ UNCHANGED textVars

\* the teacher grades (or regrades) a Canvas submission
CanvasGraded ==
    \E id \in GradedIds, sub \in Submissions :
        /\ canvas[id] # sub
        /\ canvas' = [canvas EXCEPT ![id] = sub]
        /\ UNCHANGED <<cards, nextCard, clock, moodleEdit, cacheFile, owner>>
        /\ lastRun' = NoRun
        /\ UNCHANGED zone
        /\ UNCHANGED textVars

\* the teacher edits the intro of Moodle assignment 1
MoodleEdited ==
    /\ ~moodleEdit
    /\ moodleEdit' = TRUE
    /\ UNCHANGED <<cards, nextCard, clock, canvas, cacheFile, owner>>
    /\ lastRun' = NoRun
    /\ UNCHANGED zone
    /\ UNCHANGED textVars

\* --refresh: CacheData writes trello_cache.json
CacheData ==
    /\ cacheFile # "valid"
    /\ cacheFile' = "valid"
    /\ UNCHANGED <<cards, nextCard, clock, canvas, moodleEdit, owner>>
    /\ lastRun' = NoRun
    /\ UNCHANGED zone
    /\ UNCHANGED textVars

\* a run that returned an error before its loop
Failed(source, dryRun, tz) ==
    [NoRun EXCEPT !.source = source, !.dryRun = dryRun, !.err = TRUE, !.now = clock,
                  !.tz = tz]

\* SyncCanvasAssignments, where failure.call fails for the failure.item-th
\* assignment of the batch (NoFailure: every call succeeds)
SyncCanvasRun(failure) ==
    LET tz == zone
        assignments == CanvasGetUpcomingAssignments(clock, tz)
        allCards == GetAllBoardCards(cards, SchoolBoard)
        done == CanvasLoop([cards |-> cards, nextCard |-> nextCard, items |-> <<>>],
                           assignments, 1, canvas, allCards, owner,
                           <<clock, tz>>, failure)
    IN /\ failure.item <= Len(assignments)
       /\ UNCHANGED <<clock, canvas, moodleEdit, cacheFile, zone>>
       /\ UNCHANGED textVars
       /\ IF LoadCache(cacheFile).err
          THEN /\ failure = NoFailure
               /\ lastRun' = Failed("canvas", FALSE, tz)
               /\ UNCHANGED <<cards, nextCard, owner>>
          ELSE /\ Len(done.cards) <= MaxCards
               /\ cards' = SortCardsByDueDate(done.cards, WeeklyList)
               /\ nextCard' = done.nextCard
               /\ owner' = OwnerAfter(owner, done.items)
               /\ lastRun' = [source |-> "canvas", dryRun |-> FALSE, err |-> FALSE,
                              now |-> clock, tz |-> tz, items |-> done.items,
                              repeat |-> Repeats("canvas", tz, done.items),
                              sorted |-> TRUE,
                              markersKept |-> MarkersKept(allCards, owner),
                              batch |-> assignments, failure |-> failure]

\* SyncMoodleAssignments with the default window of 60 days
SyncMoodleRun(dryRun, failure) ==
    LET tz == zone
        toDate == AddDate(Now(clock, tz), 60)
        assignments == MoodleGetUpcomingAssignments(moodleEdit, clock, toDate.inst)
        allCards == GetAllBoardCards(cards, SchoolBoard)
        done == MoodleLoop([cards |-> cards, nextCard |-> nextCard, items |-> <<>>],
                           assignments, 1, allCards, owner, tz, dryRun, failure)
    IN /\ failure.item <= Len(assignments)
       /\ UNCHANGED <<clock, canvas, moodleEdit, cacheFile, zone>>
       /\ UNCHANGED textVars
       /\ IF LoadCache(cacheFile).err
          THEN /\ failure = NoFailure
               /\ lastRun' = Failed("moodle", dryRun, tz)
               /\ UNCHANGED <<cards, nextCard, owner>>
          ELSE /\ dryRun => failure = NoFailure
               /\ Len(done.cards) <= MaxCards
               /\ cards' = IF dryRun THEN done.cards
                           ELSE SortCardsByDueDate(done.cards, WeeklyList)
               /\ nextCard' = done.nextCard
               /\ owner' = OwnerAfter(owner, done.items)
               /\ lastRun' = [source |-> "moodle", dryRun |-> dryRun, err |-> FALSE,
                              now |-> clock, tz |-> tz, items |-> done.items,
                              repeat |-> ~dryRun /\ Repeats("moodle", tz, done.items),
                              sorted |-> ~dryRun,
                              markersKept |-> MarkersKept(allCards, owner),
                              batch |-> assignments, failure |-> failure]

\* --sync-canvas
SyncCanvasAssignments == SyncCanvasRun(NoFailure)

\* --sync-moodle and --sync-moodle-dry-run
SyncMoodleAssignments == \E dryRun \in BOOLEAN : SyncMoodleRun(dryRun, NoFailure)

Next ==
    \/ Tick
    \/ CanvasGraded
    \/ MoodleEdited
    \/ CacheData
    \/ SyncCanvasAssignments
    \/ SyncMoodleAssignments

Spec == Init /\ [][Next]_vars

\* the calls that can fail for one assignment of a Canvas batch
CanvasCalls == {"course", "submission", "board"}

\* failures are explored on boards that leave room for the cards of a whole batch
RoomForBatch == Len(cards) + 2 <= MaxCards

\* --sync-canvas with one call failing for one assignment of the batch
SyncCanvasFaulty ==
    /\ RoomForBatch
    /\ \E i \in 1..Len(CanvasAssignments), call \in CanvasCalls :
        SyncCanvasRun([item |-> i, call |-> call])

\* --sync-moodle with the board calls failing for one record of the batch
SyncMoodleFaulty ==
    /\ RoomForBatch
    /\ \E i \in 1..(Len(MoodleAssignmentList(FALSE)) + Len(MoodleQuizList)) :
        SyncMoodleRun(FALSE, [item |-> i, call |-> "board"])

\* a board with its cache written, and assignment 12 graded 45 of 50
FaultyInit ==
    /\ cards = <<>>
    /\ nextCard = 1
    /\ clock = StartClock
    /\ canvas = [id \in CanvasIds |-> IF id \in GradedIds THEN Scored(45, 50)
                                      ELSE NoSubmission]
    /\ moodleEdit = FALSE
    /\ cacheFile = "valid"
    /\ lastRun = NoRun
    /\ owner = [k \in Keys |-> 0]
    /\ text = <<>>
    /\ textOut = NoText
    /\ redoCase = NoRedoCase
    /\ zone = 0
    /\ NoHelpers

\* --sync-moodle, every call succeeding
SyncMoodleReal == SyncMoodleRun(FALSE, NoFailure)

FaultyNext ==
    \/ SyncCanvasAssignments
    \/ SyncMoodleReal
    \/ SyncCanvasFaulty
    \/ SyncMoodleFaulty

\* the syncs under per-item failures
SpecFaulty == FaultyInit /\ [][FaultyNext]_vars

-----------------------------------------------------------------------------
(* The text helpers on their own: stripCanvasMetadata, formatCanvasMetadata  *)
(* and the REDO rule applied to drawn inputs.                                *)

\* the characters of a free text
Chars == {NL, "-", "a"}

\* the course names and assignment names a title is built from
CourseNames == {<<"Bio">>, RedoPrefix \o <<"Bio">>, RedoPrefix \o RedoPrefix \o <<"Bio">>}
AssignmentNames == {<<"HW">>, RedoPrefix \o <<"HW">>}

TextInit ==
    /\ cards = <<>>
    /\ nextCard = 1
    /\ clock = StartClock
    /\ canvas = [id \in CanvasIds |-> NoSubmission]
    /\ moodleEdit = FALSE
    /\ cacheFile = "absent"
    /\ lastRun = NoRun
    /\ owner = [k \in Keys |-> 0]
    /\ zone = 0
    /\ NoHelpers
    /\ textOut = NoText
    /\ \/ /\ text \in SeqsUpTo(Chars, MaxLen)
          /\ redoCase = NoRedoCase
       \/ /\ text = <<>>
          /\ \E c \in CourseNames, n \in AssignmentNames :
                redoCase = [active |-> TRUE, course |-> c, name |-> n,
                            trail |-> <<CardTitle(c, n)>>, hist |-> <<>>]

\* the variables of the syncs
syncVars == <<cards, nextCard, clock, canvas, moodleEdit, cacheFile, lastRun, owner, zone>>

\* what the text helpers leave alone
boardVars == <<syncVars, helperVars>>

\* stripCanvasMetadata(text)
StripText ==
    /\ ~redoCase.active
    /\ textOut.fn = "none"
    /\ textOut' = [fn |-> "strip", out |-> stripCanvasMetadata(text), arg |-> NoArg]
    /\ UNCHANGED <<text, redoCase>>
    /\ UNCHANGED boardVars

\* stripCanvasMetadata(text + formatCanvasMetadata(...)): the block of some
\* assignment and submission appended to the text, then stripped
AppendAndStripText ==
    /\ ~redoCase.active
    /\ textOut.fn = "none"
    /\ \E i \in DOMAIN CanvasAssignments, sub \in Submissions :
          textOut' = [fn |-> "roundtrip",
                      out |-> stripCanvasMetadata(
                                 text \o formatCanvasMetadata(
                                            CanvasAssignments[i],
                                            CanvasCourseName(CanvasAssignments[i].CourseID),
                                            sub)),
                      arg |-> NoArg]
    /\ UNCHANGED <<text, redoCase>>
    /\ UNCHANGED boardVars

\* the REDO rule applied once more to the title, with grade outcome needsRedo
ApplyRedoRule ==
    /\ redoCase.active
    /\ Len(redoCase.hist) < MaxApply
    /\ \E needsRedo \in BOOLEAN :
          redoCase' = [redoCase EXCEPT
                          !.trail = Append(@, RedoTitle(@[Len(@)], needsRedo)),
                          !.hist = Append(@, needsRedo)]
    /\ UNCHANGED <<text, textOut>>
    /\ UNCHANGED boardVars

\* the submissions and grades the formatters are applied to
FormatSubmissions == Submissions \cup {Ungraded(100), Scored(85, 100), Scored(95, 100)}

FormatGrades == {NoGrade, MoodleGrade(85, 100), MoodleGrade(95, 100), MoodleGrade(45, 50),
                 MoodleGrade(10, 0)}

\* formatCanvasMetadata(assignment, courseName, submission)
FormatCanvasText ==
    /\ ~redoCase.active
    /\ textOut.fn = "none"
    /\ text = <<>>
    /\ \E i \in DOMAIN CanvasAssignments, sub \in FormatSubmissions :
          LET rec == CanvasAssignments[i]
              course == CanvasCourseName(rec.CourseID)
          IN textOut' = [fn |-> "formatCanvas",
                         out |-> formatCanvasMetadata(rec, course, sub),
                         arg |-> [rec |-> rec, course |-> course, grade |-> sub]]
    /\ UNCHANGED <<text, redoCase>>
    /\ UNCHANGED boardVars

\* formatMoodleMetadata(a, courseName, grade), for assignments and quizzes
FormatMoodleText ==
    /\ ~redoCase.active
    /\ textOut.fn = "none"
    /\ text = <<>>
    /\ \E edited \in BOOLEAN, grade \in FormatGrades :
          \E rec \in {(MoodleAssignmentList(edited) \o MoodleQuizList)[i] :
                         i \in 1..(Len(MoodleAssignmentList(edited)) + Len(MoodleQuizList))} :
              LET course == MoodleCourseName(rec.CourseID)
              IN textOut' = [fn |-> "formatMoodle",
                             out |-> formatMoodleMetadata(rec, course, grade, zone),
                             arg |-> [rec |-> rec, course |-> course, grade |-> grade]]
    /\ UNCHANGED <<text, redoCase>>
    /\ UNCHANGED boardVars

TextNext ==
    \/ StripText
    \/ AppendAndStripText
    \/ ApplyRedoRule
    \/ FormatCanvasText
    \/ FormatMoodleText

SpecText == TextInit /\ [][TextNext]_vars

-----------------------------------------------------------------------------
(* The name lookups on their own, applied to drawn boards, lists and queries. *)

\* names of boards and lists, and the names looked up
EntryNames == {<<"a">>, <<"A", " ">>, <<"a", "b">>, <<"b">>}
Queries == {<<"a">>, <<" ", "A">>, <<"B", "a">>, <<>>}
BoardIDs == {"board1", "board2"}

\* the characters of a string given to normalizeString
NameChars == {" ", "A", "a"}

Boards == {[Name |-> n] : n \in EntryNames}
Lists == {[Name |-> n, BoardID |-> b] : n \in EntryNames, b \in BoardIDs}

\* the non-empty sequences over S of length at most n
NonEmptySeqs(S, n) == SeqsUpTo(S, n) \ {<<>>}

SearchInit ==
    /\ cards = <<>>
    /\ nextCard = 1
    /\ clock = StartClock
    /\ canvas = [id \in CanvasIds |-> NoSubmission]
    /\ moodleEdit = FALSE
    /\ cacheFile = "absent"
    /\ lastRun = NoRun
    /\ owner = [k \in Keys |-> 0]
    /\ zone = 0
    /\ text = <<>>
    /\ textOut = NoText
    /\ redoCase = NoRedoCase
    /\ \/ \E bs \in NonEmptySeqs(Boards, MaxEntries), q \in Queries :
             search = [NoSearch EXCEPT !.fn = "board", !.entries = bs, !.query = q]
       \/ \E ls \in NonEmptySeqs(Lists, MaxEntries), q \in Queries, b \in BoardIDs :
             search = [NoSearch EXCEPT !.fn = "list", !.entries = ls, !.query = q,
                                       !.boardID = b]
       \/ \E n \in SeqsUpTo(NameChars, MaxName) :
             search = [NoSearch EXCEPT !.fn = "normalize", !.query = n]
    /\ sorter = NoSort
    /\ sun = NoSun
    /\ cli = NoCli
    /\ upcoming = NoUpcoming

searchFrame == <<syncVars, text, textOut, redoCase, sorter, sun, cli, upcoming>>

\* findBoardByName(boards, boardName)
FindBoard ==
    /\ search.fn = "board" /\ ~search.done
    /\ search' = [search EXCEPT !.done = TRUE,
                                !.result = findBoardByName(search.entries, search.query)]
    /\ UNCHANGED searchFrame

\* findListByName(lists, boardID, listName)
FindList ==
    /\ search.fn = "list" /\ ~search.done
    /\ search' = [search EXCEPT !.done = TRUE,
                                !.result = findListByName(search.entries, search.boardID,
                                                          search.query)]
    /\ UNCHANGED searchFrame

\* normalizeString(s), and normalizeString of what it returned
Normalize ==
    /\ search.fn = "normalize" /\ ~search.done
    /\ search' = [search EXCEPT !.done = TRUE,
                                !.norm = normalizeString(search.query),
                                !.again = normalizeString(normalizeString(search.query))]
    /\ UNCHANGED searchFrame

SearchNext ==
    \/ FindBoard
    \/ FindList
    \/ Normalize

SpecSearch == SearchInit /\ [][SearchNext]_vars

-----------------------------------------------------------------------------
(* The due-date sort on its own, applied to drawn lists. *)

\* the due dates of the cards of a list
Dues == {NoDue, 1, 2}

\* ten more cards, which make a drawn list longer than 12
Padding == <<1, NoDue, 2, 1, NoDue, 2, 1, NoDue, 2, 1>>

\* the cards of a list with these due dates, in list order; a card's id is its
\* position in the list
CardsWithDues(dues) == [i \in DOMAIN dues |-> [id |-> i, due |-> dues[i]]]

SortInit ==
    /\ cards = <<>>
    /\ nextCard = 1
    /\ clock = StartClock
    /\ canvas = [id \in CanvasIds |-> NoSubmission]
    /\ moodleEdit = FALSE
    /\ cacheFile = "absent"
    /\ lastRun = NoRun
    /\ owner = [k \in Keys |-> 0]
    /\ zone = 0
    /\ text = <<>>
    /\ textOut = NoText
    /\ redoCase = NoRedoCase
    /\ search = NoSearch
    /\ sun = NoSun
    /\ cli = NoCli
    /\ upcoming = NoUpcoming
    /\ \E dues \in SeqsUpTo(Dues, MaxSort), long \in BOOLEAN :
          sorter = [NoSort EXCEPT
                       !.input = CardsWithDues(IF long THEN dues \o Padding ELSE dues)]

sortFrame == <<syncVars, text, textOut, redoCase, search, sun, cli, upcoming>>

\* SortCardsByDueDate on a list of two or more cards: the sort.Slice call and
\* the reposition loop, in which at most one PUT fails
SortSlice ==
    /\ ~sorter.done
    /\ Len(sorter.input) > 1
    /\ \E target \in SliceOutcomes(sorter.input),
          failing \in {{}} \cup {{k} : k \in DOMAIN sorter.input} :
          sorter' = [sorter EXCEPT
                        !.done = TRUE, !.target = target, !.failing = failing,
                        !.moves = Moves(target),
                        !.after = MoveToTop(sorter.input, target, Len(target), failing)]
    /\ UNCHANGED sortFrame

\* len(cards) <= 1: SortCardsByDueDate returns without sorting
SortNothing ==
    /\ ~sorter.done
    /\ Len(sorter.input) <= 1
    /\ sorter' = [sorter EXCEPT !.done = TRUE, !.target = sorter.input,
                                !.after = sorter.input]
    /\ UNCHANGED sortFrame

SortNext ==
    \/ SortSlice
    \/ SortNothing

SpecSort == SortInit /\ [][SortNext]_vars

-----------------------------------------------------------------------------
(* The sunset cache on its own: requests against drawn cache files. *)

\* the places sunset is asked for
Locations == {"Orem", "Elsewhere"}

\* the UTC day of the first request
SunDay == StartClock \div Day

\* the first days of the windows a cache file found at the start may hold: long
\* expired, expiring around the first request, and current
CacheStarts == {SunDay - 40, SunDay - 30, SunDay - 29, SunDay - 1, SunDay}

\* the times of day (UTC, hours) of the first request; at hour 0 the request
\* falls on the very instant a cache written 30 days before runs out
SunHours == {0, 2, 20}

SunInit ==
    /\ cards = <<>>
    /\ nextCard = 1
    /\ clock = StartClock
    /\ canvas = [id \in CanvasIds |-> NoSubmission]
    /\ moodleEdit = FALSE
    /\ cacheFile = "absent"
    /\ lastRun = NoRun
    /\ owner = [k \in Keys |-> 0]
    /\ zone \in Zones
    /\ text = <<>>
    /\ textOut = NoText
    /\ redoCase = NoRedoCase
    /\ search = NoSearch
    /\ sorter = NoSort
    /\ cli = NoCli
    /\ upcoming = NoUpcoming
    /\ \E file \in {NoCacheFile, BadCacheFile}
                     \cup {SunsetCache(loc, from) : loc \in Locations, from \in CacheStarts},
          h \in SunHours :
          sun = [file |-> file, now |-> StartClock + h, log |-> <<>>]

sunFrame == <<syncVars, text, textOut, redoCase, search, sorter, cli, upcoming>>

\* one request, answered from the cache or by a fetch that the service answers
\* with reply
SundownRequest ==
    /\ Len(sun.log) < MaxCalls
    /\ \E loc \in Locations, reply \in SunsetReplies :
          LET got == GetSundownTime(sun.file, loc, sun.now, zone, reply)
          IN sun' = [sun EXCEPT
                        !.file = got.file,
                        !.log = Append(@, [loc |-> loc, before |-> sun.file,
                                           reply |-> IF got.fetches = 1 THEN reply
                                                     ELSE "none",
                                           fetches |-> got.fetches, window |-> got.window,
                                           err |-> got.err, time |-> got.time,
                                           after |-> got.file])]
    /\ UNCHANGED sunFrame

SunNext == SundownRequest

SpecSun == SunInit /\ [][SunNext]_vars

-----------------------------------------------------------------------------
(* The whole board: the syncs next to the daily reset, the weekly creation,   *)
(* the JIRA sync and the sundown notification, on the lists of two boards.    *)

\* what a run other than a Canvas or Moodle sync reports
Ran(source, err) ==
    [NoRun EXCEPT !.source = source, !.err = err, !.now = clock, !.tz = zone]

\* ResetDailyTasks: the due date is 23:59:59 (to the hour: 23:00) of tomorrow's
\* wall clock, printed with a literal Z
EndOfTomorrow(now, tz) == (Today(now, tz) + 1) * Day + 23

\* the loop of ResetDailyTasks over the cards of the list from the i-th on; the
\* failAt-th PUT fails and ends the loop
RECURSIVE ResetLoop_SkipsFailedCard(_, _, _, _, _)
ResetLoop_SkipsFailedCard(cs, inList, i, dueDate, failAt) ==
    IF i > Len(inList) THEN cs
    ELSE ResetLoop_SkipsFailedCard(
            IF i = failAt THEN cs ELSE UpdateCard(cs, inList[i].id, dueDate, FALSE),
            inList, i + 1, dueDate, failAt)
RECURSIVE ResetLoop(_, _, _, _, _)
ResetLoop(cs, inList, i, dueDate, failAt) ==
    IF i > Len(inList) \/ i = failAt THEN cs
    ELSE ResetLoop(UpdateCard(cs, inList[i].id, dueDate, FALSE), inList, i + 1,
                   dueDate, failAt)

\* --daily-reset: ResetDailyTasks("Makai School", "Daily")
ResetDailyTasks ==
    \E failAt \in 0..MaxCards :
        LET inList == GetCardsInList(cards, DailyList)
            found == ~FindListByName(cacheFile, SchoolBoard, DailyList).err
        IN /\ failAt <= Len(inList)
           /\ ~found => failAt = 0
           /\ cards' = IF found
                       THEN ResetLoop(cards, inList, 1, EndOfTomorrow(clock, zone), failAt)
                       ELSE cards
           /\ lastRun' = [Ran("reset", ~found \/ failAt # 0) EXCEPT
                              !.batch = IF found THEN inList ELSE <<>>]
           /\ UNCHANGED <<nextCard, clock, canvas, moodleEdit, cacheFile, owner, zone>>
           /\ UNCHANGED textVars

\* subjects.json: one quarter, its subjects, and its weeks by first and last day
Subjects == <<<<"Math">>, <<"Art">>>>
Weeks ==
    <<[Number |-> 1, StartDate |-> SunDay - 5, EndDate |-> SunDay + 1],
      [Number |-> 2, StartDate |-> SunDay + 2, EndDate |-> SunDay + 8]>>

\* Quarter.GetCurrentWeek: the index of the first week with
\* StartDate - 1 day < now < EndDate + 1 day; 0: none
GetCurrentWeek(now) ==
    LET in == {w \in DOMAIN Weeks : /\ now > (Weeks[w].StartDate - 1) * Day
                                   /\ now < (Weeks[w].EndDate + 1) * Day}
    IN IF in = {} THEN 0 ELSE CHOOSE w \in in : \A v \in in : w <= v

\* Quarter.GetNextWeek: the index of the week after the first one numbered as
\* the current one; 0: none
GetNextWeek(current) ==
    LET at == {w \in DOMAIN Weeks : Weeks[w].Number = Weeks[current].Number
                                    /\ w + 1 <= Len(Weeks)}
    IN IF at = {} THEN 0 ELSE (CHOOSE w \in at : \A v \in at : w <= v) + 1

\* Quarter.FormatWeekRange: the month, the first and the last day
FormatWeekRange(week) ==
    <<"Month ">> \o Digits(week.StartDate) \o <<"-">> \o Digits(week.EndDate)

\* the loop of CreateWeeklyCards over the subjects from the i-th on; the
\* failAt-th POST fails and ends the loop
RECURSIVE WeeklyLoop(_, _, _, _)
WeeklyLoop(acc, week, i, failAt) ==
    IF i > Len(Subjects) \/ i = failAt THEN acc
    ELSE WeeklyLoop(
            [cards |-> CreateCard(acc.cards, acc.nextCard, WeeklyList,
                                  Subjects[i] \o <<" Week ">> \o Digits(week.Number)
                                      \o <<": ">> \o FormatWeekRange(week),
                                  <<>>, week.EndDate * Day + 18),
             nextCard |-> acc.nextCard + 1],
            week, i + 1, failAt)

\* --create-weekly: CreateWeeklyCards
CreateWeeklyCards ==
    \E failAt \in 0..Len(Subjects) :
        LET current == GetCurrentWeek(clock)
            next == IF current = 0 THEN 0 ELSE GetNextWeek(current)
            found == next # 0 /\ ~FindListByName(cacheFile, SchoolBoard, WeeklyList).err
            done == IF found
                    THEN WeeklyLoop([cards |-> cards, nextCard |-> nextCard],
                                    Weeks[next], 1, failAt)
                    ELSE [cards |-> cards, nextCard |-> nextCard]
        IN /\ ~found => failAt = 0
           /\ Len(done.cards) <= MaxCards
           /\ done.nextCard <= MaxIds + 1
           /\ cards' = done.cards
           /\ nextCard' = done.nextCard
           /\ lastRun' = Ran("weekly", ~found \/ failAt # 0)
           /\ UNCHANGED <<clock, canvas, moodleEdit, cacheFile, owner, zone>>
           /\ UNCHANGED textVars

\* the tasks directory: one task, not a bug, whose STATUS.md already reads the
\* status that a card on the first list of the Mac board writes back
JiraTasks ==
    <<[ID |-> "AK-1", Title |-> <<"fix">>, Status |-> "PLANNED",
       IssueType |-> "Story"]>>

\* FindCardByTaskID: the index of the first card whose title contains the id
FindCardByTaskID(cs, taskID) ==
    LET hits == {i \in DOMAIN cs : Contains(cs[i].name, <<taskID>>)}
    IN IF hits = {} THEN 0 ELSE CHOOSE i \in hits : \A j \in hits : i <= j

\* strings.Count
RECURSIVE Count(_, _)
Count(s, p) ==
    LET at == Index(s, p)
    IN IF at = 0 THEN 0 ELSE 1 + Count(SubSeq(s, at + Len(p), Len(s)), p)

\* strings.Replace(s, old, "", 1)
RemoveFirst(s, old) ==
    LET at == Index(s, old)
    IN IF at = 0 THEN s
       ELSE SubSeq(s, 1, at - 1) \o SubSeq(s, at + Len(old), Len(s))

buildJiraCardDescription(task, now, tz) ==
    <<"**JIRA Task ID**: ", task.ID, NL, NL,
      "**Current Status**: ", task.Status, NL, NL,
      "**JIRA Info**:", NL, "- Type: ", task.IssueType, NL, NL,
      "**Links**:", NL, "- [JIRA Ticket](", task.ID, ")", NL,
      NL, "-", "-", "-", NL, "*Last synced: ">> \o Digits(now + tz) \o <<"*">>

\* one task of SyncJiraTasks: the card found by its title has a doubled id
\* removed from the title and gets the description; a missing card is created on
\* the first list of the board
JiraStep(acc, task, allCards, now, tz) ==
    LET existing == FindCardByTaskID(allCards, task.ID)
        description == buildJiraCardDescription(task, now, tz)
    IN IF existing # 0
       THEN LET card == allCards[existing]
                retitled == IF Count(card.name, <<task.ID, ":">>) > 1
                            THEN UpdateCardTitle(acc.cards, card.id,
                                     RemoveFirst(card.name, <<task.ID, ":", " ">>))
                            ELSE acc.cards
            IN [cards |-> UpdateCardDescription(retitled, card.id, description),
                nextCard |-> acc.nextCard]
       ELSE [cards |-> CreateCard(acc.cards, acc.nextCard, MacList,
                                  IF HasPrefix(task.Title, <<task.ID, ":">>)
                                  THEN task.Title
                                  ELSE <<task.ID, ":", " ">> \o task.Title,
                                  description, NoDue),
             nextCard |-> acc.nextCard + 1]

RECURSIVE JiraLoop(_, _, _, _, _)
JiraLoop(acc, i, allCards, now, tz) ==
    IF i > Len(JiraTasks) THEN acc
    ELSE JiraLoop(JiraStep(acc, JiraTasks[i], allCards, now, tz), i + 1, allCards,
                  now, tz)

\* SyncJiraTasks
SyncJiraTasks ==
    LET found == ~LoadCache(cacheFile).err
        done == IF found
                THEN JiraLoop([cards |-> cards, nextCard |-> nextCard], 1,
                              GetAllBoardCards(cards, MacBoard), clock, zone)
                ELSE [cards |-> cards, nextCard |-> nextCard]
    IN /\ Len(done.cards) <= MaxCards
       /\ done.nextCard <= MaxIds + 1
       /\ cards' = done.cards
       /\ nextCard' = done.nextCard
       /\ lastRun' = Ran("jira", ~found)
       /\ UNCHANGED <<clock, canvas, moodleEdit, cacheFile, owner, zone>>
       /\ UNCHANGED textVars

\* "Sundown Notification - " and today's date
SundownTitle(now, tz) == <<"Sundown Notification - ">> \o Digits(Today(now, tz))

\* the calls of CreateDailySundownNotification after the sunset lookup that can
\* fail
SundownCalls == {"none", "create", "comment"}

\* CreateDailySundownNotification(boardName): find the list, delete its cards,
\* look up the sunset (the service answers a fetch with reply), create the card
\* of the day, comment on the first card of the list; the first failure returns
\* its error
CreateDailySundownNotification ==
    \E failAt \in 0..MaxCards, reply \in {"ok", "error"}, fail \in SundownCalls :
        LET found == ~FindListByName(cacheFile, SchoolBoard, SundownList).err
            cleared == DeleteAllCardsFromList(cards, SundownList, failAt)
            got == GetSundownTime(sun.file, "Orem", clock, zone, reply)
            created == CreateCard(cleared.cards, nextCard, SundownList,
                                  SundownTitle(clock, zone), <<>>, NoDue)
        IN /\ failAt <= Len(GetCardsInList(cards, SundownList))
           /\ ~found => (failAt = 0 /\ reply = "ok" /\ fail = "none")
           /\ cleared.err => (reply = "ok" /\ fail = "none")
           /\ got.err => fail = "none"
           /\ got.fetches = 0 => reply = "ok"
           /\ IF ~found
              THEN /\ lastRun' = Ran("sundown", TRUE)
                   /\ UNCHANGED <<cards, nextCard, sun>>
              ELSE IF cleared.err
              THEN /\ lastRun' = Ran("sundown", TRUE)
                   /\ cards' = cleared.cards
                   /\ UNCHANGED <<nextCard, sun>>
              ELSE IF got.err \/ fail = "create"
              THEN /\ lastRun' = Ran("sundown", TRUE)
                   /\ cards' = cleared.cards
                   /\ sun' = [sun EXCEPT !.file = got.file]
                   /\ UNCHANGED nextCard
              ELSE /\ Len(created) <= MaxCards
                   /\ nextCard <= MaxIds
                   /\ lastRun' = Ran("sundown", fail = "comment")
                   /\ cards' = created
                   /\ nextCard' = nextCard + 1
                   /\ sun' = [sun EXCEPT !.file = got.file]
           /\ UNCHANGED <<clock, canvas, moodleEdit, cacheFile, owner, zone>>
           /\ UNCHANGED <<text, textOut, redoCase, search, sorter, cli, upcoming>>

\* the lists somebody adds a card to by hand, and the title of that card
HandLists == {DailyList, SundownList, MacList}
HandTitle(listID) ==
    IF listID = MacList THEN <<"AK-1", ":", " ", "AK-1", ":", " ", "fix">>
    ELSE <<"a">>

\* somebody adds a card to a list in the browser
AddCardByHand ==
    \E listID \in HandLists :
        /\ Len(cards) < MaxCards
        /\ nextCard <= MaxIds
        /\ Len(GetCardsInList(cards, listID)) < (IF listID = SundownList THEN 2 ELSE 1)
        /\ cards' = CreateCard(cards, nextCard, listID, HandTitle(listID), <<>>, NoDue)
        /\ nextCard' = nextCard + 1
        /\ lastRun' = NoRun
        /\ UNCHANGED <<clock, canvas, moodleEdit, cacheFile, owner, zone>>
        /\ UNCHANGED textVars

\* a board with nothing on it, its cache written or not, sunset cached or not
BoardInit ==
    /\ cards = <<>>
    /\ nextCard = 1
    /\ clock = StartClock
    /\ canvas = [id \in CanvasIds |-> NoSubmission]
    /\ moodleEdit = FALSE
    /\ cacheFile \in {"absent", "malformed", "valid"}
    /\ lastRun = NoRun
    /\ owner = [k \in Keys |-> 0]
    /\ zone = 0
    /\ text = <<>>
    /\ textOut = NoText
    /\ redoCase = NoRedoCase
    /\ search = NoSearch
    /\ sorter = NoSort
    /\ cli = NoCli
    /\ upcoming = NoUpcoming
    /\ \E file \in {NoCacheFile, SunsetCache("Orem", SunDay)} :
          sun = [NoSun EXCEPT !.file = file]

\* the syncs, while the board has card ids left
BoardSyncCanvas == SyncCanvasAssignments /\ nextCard' <= MaxIds + 1
BoardSyncMoodle == SyncMoodleReal /\ nextCard' <= MaxIds + 1

BoardNext ==
    \/ CacheData
    \/ AddCardByHand
    \/ BoardSyncCanvas
    \/ BoardSyncMoodle
    \/ SyncJiraTasks
    \/ ResetDailyTasks
    \/ CreateWeeklyCards
    \/ CreateDailySundownNotification

SpecBoard == BoardInit /\ [][BoardNext]_vars

-----------------------------------------------------------------------------
(* The daily reset on its own, on drawn boards whose cards already carry due  *)
(* dates and completion marks.                                                *)

\* the due dates a card may carry before a reset: none, or one of last week
ResetDues == {NoDue, StartClock - 7 * Day + 9}

\* the boards a reset may find: up to MaxSort cards on the Daily and Weekly lists
ResetBoards ==
    UNION {[1..n -> [due : ResetDues, dueComplete : BOOLEAN,
                     list : {DailyList, WeeklyList}]] : n \in 0..MaxSort}

ResetInit ==
    /\ \E b \in ResetBoards :
          cards = [i \in DOMAIN b |->
                      [id |-> i, name |-> <<"a">>, desc |-> <<>>, due |-> b[i].due,
                       dueComplete |-> b[i].dueComplete, list |-> b[i].list]]
    /\ nextCard = Len(cards) + 1
    /\ clock = StartClock + 2
    /\ canvas = [id \in CanvasIds |-> NoSubmission]
    /\ moodleEdit = FALSE
    /\ cacheFile \in {"absent", "valid"}
    /\ lastRun = NoRun
    /\ owner = [k \in Keys |-> 0]
    /\ zone \in Zones
    /\ text = <<>>
    /\ textOut = NoText
    /\ redoCase = NoRedoCase
    /\ NoHelpers

\* somebody ticks off a card in the browser
CheckOffByHand ==
    \E i \in DOMAIN cards :
        /\ ~cards[i].dueComplete
        /\ cards' = [cards EXCEPT ![i].dueComplete = TRUE]
        /\ lastRun' = NoRun
        /\ UNCHANGED <<nextCard, clock, canvas, moodleEdit, cacheFile, owner, zone>>
        /\ UNCHANGED textVars

ResetNext == ResetDailyTasks \/ CheckOffByHand \/ Tick

SpecReset == ResetInit /\ [][ResetNext]_vars

-----------------------------------------------------------------------------
(* The Canvas filter on its own, applied to drawn due dates. *)

\* due dates relative to the time of the run (hours): three days ago; an hour
\* before, at and an hour after one day ago; in five days; an hour before, at
\* and an hour after 14 days from now; in twenty days
FilterOffsets ==
    {-3 * Day, -Day - 1, -Day, -Day + 1, 5 * Day, 14 * Day - 1, 14 * Day, 14 * Day + 1,
     20 * Day}

\* the due_at strings Canvas may return: none, no timestamp, or a timestamp
\* written in one of the zones
FilterDueAts ==
    {EmptyDueAt, BadDueAt}
        \cup {DueAtString(StartClock + d + off, off) : d \in FilterOffsets, off \in Zones}

FilterInit ==
    /\ cards = <<>>
    /\ nextCard = 1
    /\ clock = StartClock
    /\ canvas = [id \in CanvasIds |-> NoSubmission]
    /\ moodleEdit = FALSE
    /\ cacheFile = "absent"
    /\ lastRun = NoRun
    /\ owner = [k \in Keys |-> 0]
    /\ zone \in Zones
    /\ text = <<>>
    /\ textOut = NoText
    /\ redoCase = NoRedoCase
    /\ search = NoSearch
    /\ sorter = NoSort
    /\ sun = NoSun
    /\ cli = NoCli
    /\ \E dues \in SeqsUpTo(FilterDueAts, MaxDue) :
          upcoming = [NoUpcoming EXCEPT
                         !.input = [i \in DOMAIN dues |->
                                       [ID |-> i, Name |-> <<"a">>, DueAt |-> dues[i]]]]

\* the filter loop of GetUpcomingAssignments over the fetched assignments
FilterUpcoming ==
    /\ ~upcoming.done
    /\ upcoming' = [upcoming EXCEPT
                        !.done = TRUE, !.kept = UpcomingFilter(upcoming.input, clock, zone)]
    /\ UNCHANGED <<syncVars, text, textOut, redoCase, search, sorter, sun, cli>>

FilterNext == FilterUpcoming

SpecFilter == FilterInit /\ [][FilterNext]_vars

-----------------------------------------------------------------------------
(* The command line on its own: main under drawn flags and environments. *)

MainInit ==
    /\ cards = <<>>
    /\ nextCard = 1
    /\ clock = StartClock
    /\ canvas = [id \in CanvasIds |-> NoSubmission]
    /\ moodleEdit = FALSE
    /\ cacheFile = "valid"
    /\ lastRun = NoRun
    /\ owner = [k \in Keys |-> 0]
    /\ zone = 0
    /\ text = <<>>
    /\ textOut = NoText
    /\ redoCase = NoRedoCase
    /\ search = NoSearch
    /\ sorter = NoSort
    /\ sun = NoSun
    /\ upcoming = NoUpcoming
    /\ \E i \in DOMAIN MainOps, trello, canvasSet, moodleSet, canvasUp \in BOOLEAN,
          moodleTo, envTo, exportTo \in DateTexts :
          cli = [NoCli EXCEPT !.op = MainOps[i], !.trello = trello,
                              !.canvas = canvasSet, !.moodle = moodleSet,
                              !.canvasUp = canvasUp, !.moodleTo = moodleTo,
                              !.envTo = envTo, !.exportTo = exportTo]

\* the program runs once
RunMain ==
    /\ ~cli.done
    /\ cli' = [cli EXCEPT !.done = TRUE, !.did = main(cli)]
    /\ UNCHANGED <<syncVars, text, textOut, redoCase, search, sorter, sun, upcoming>>

MainNext == RunMain

SpecMain == MainInit /\ [][MainNext]_vars

-----------------------------------------------------------------------------
(* C8: the REDO rule is idempotent and reversible. *)

HasSuffix(s, p) == Len(p) <= Len(s) /\ SubSeq(s, Len(s) - Len(p) + 1, Len(s)) = p

\* C8 as claimed: for every title, also one that begins with "REDO - ", two
\* applications in a row with the same grade leave the title one application
\* gives, and an application with a passing grade after one with a failing grade
\* gives back the title they started from.
C8_RedoRule_EveryTitle ==
    \A i \in 1..(Len(redoCase.hist) - 1) :
        /\ redoCase.hist[i] = redoCase.hist[i + 1]
              => redoCase.trail[i + 2] = redoCase.trail[i + 1]
        /\ (redoCase.hist[i] /\ ~redoCase.hist[i + 1])
              => redoCase.trail[i + 2] = redoCase.trail[i]

\* C8 amended: the same two laws for every title that does not itself begin
\* with "REDO - ".
C8_RedoRule_UnprefixedTitle ==
    \A i \in 1..(Len(redoCase.hist) - 1) :
        ~HasPrefix(redoCase.trail[i], RedoPrefix) =>
            /\ redoCase.hist[i] = redoCase.hist[i + 1]
                  => redoCase.trail[i + 2] = redoCase.trail[i + 1]
            /\ (redoCase.hist[i] /\ ~redoCase.hist[i + 1])
                  => redoCase.trail[i + 2] = redoCase.trail[i]

\* a failing grade put the prefix on an unprefixed title and the passing grade
\* after it took it off again
C8_Witness ==
    /\ redoCase.active
    /\ Len(redoCase.hist) >= 2
    /\ redoCase.hist[1] /\ ~redoCase.hist[2]
    /\ ~HasPrefix(redoCase.trail[1], RedoPrefix)
    /\ redoCase.trail[2] = RedoPrefix \o redoCase.trail[1]
    /\ redoCase.trail[3] = redoCase.trail[1]

-----------------------------------------------------------------------------
(* C9: appending a metadata block and stripping gives back the base. *)

\* C9 as claimed: for every base without the separator, stripping base + block
\* returns the base; a text without the separator strips to itself, and a text
\* that starts with the separator strips to the empty text.
C9_RoundTrip_EveryBase ==
    /\ (textOut.fn = "roundtrip" /\ ~Contains(text, Sep)) => textOut.out = text
    /\ (textOut.fn = "strip" /\ ~Contains(text, Sep)) => textOut.out = text
    /\ (textOut.fn = "strip" /\ HasPrefix(text, Sep)) => textOut.out = <<>>

\* the separator without its last character: "\n\n---"
SepHead == SubSeq(Sep, 1, Len(Sep) - 1)

\* C9 amended: the round trip returns the base for every base that neither
\* contains the separator nor ends with "\n\n---" (the separator less its final
\* newline, which the block's first newline completes); the other two parts hold
\* as claimed.
C9_RoundTrip_BaseNotEndingInSepHead ==
    /\ (textOut.fn = "roundtrip" /\ ~Contains(text, Sep) /\ ~HasSuffix(text, SepHead))
          => textOut.out = text
    /\ (textOut.fn = "strip" /\ ~Contains(text, Sep)) => textOut.out = text
    /\ (textOut.fn = "strip" /\ HasPrefix(text, Sep)) => textOut.out = <<>>

\* a base that ends in newlines and dashes came back whole from the round trip
C9_Witness ==
    /\ textOut.fn = "roundtrip"
    /\ Len(text) >= 3
    /\ text[Len(text)] = NL
    /\ \E i \in DOMAIN text : text[i] = "-"
    /\ ~Contains(text, Sep)
    /\ textOut.out = text

-----------------------------------------------------------------------------
(* The sync runs: what the run that just ended did, record by record. *)

\* a real run has just ended
RealRun == lastRun.source # "none" /\ ~lastRun.err /\ ~lastRun.dryRun

RunItems == {lastRun.items[i] : i \in DOMAIN lastRun.items}

OpsOf(item) == {item.ops[j] : j \in DOMAIN item.ops}

OpNames(item) == {o.op : o \in OpsOf(item)}

\* C1: while no card has lost its marker, a run resolves every record that
\* already has a card to that same card and creates no second card for it.
C1_SameCardOnEveryRun ==
    (RealRun /\ lastRun.markersKept) =>
        \A item \in RunItems :
            item.owner # 0 => (item.found = item.owner /\ "create" \notin OpNames(item))

\* the literal the locator searches for the record with key k
SearchedMarker(k) ==
    IF k.src = "Canvas" THEN CanvasPattern(k.id, k.kind) ELSE MoodlePattern(k.id)

\* the other kind's record with the same system and id
Twins(k) == {t \in Keys : t.src = k.src /\ t.id = k.id /\ t.kind # k.kind}

\* C2: the description a run writes for a record holds the literal the locator
\* searches for that record, and a record is never resolved to, nor does a run
\* write on, the card of the record of the other kind with the same id.
C2_MarkerKeyedOnKind ==
    RealRun =>
        \A item \in RunItems :
            /\ Contains(item.desc, SearchedMarker(item.key))
            /\ \A t \in Twins(item.key) :
                  owner[t] # 0 =>
                      /\ item.found # owner[t]
                      /\ \A o \in OpsOf(item) : o.card # owner[t]

\* C3: a run that repeats the batch of the run before it, on the board that run
\* left, creates no card and updates no description.
C3_SecondRunIsQuiet ==
    (RealRun /\ lastRun.repeat) =>
        \A item \in RunItems : OpNames(item) \cap {"create", "updateDesc"} = {}

\* C4: for a record whose card was found the run issues a due-date update on
\* that card, and a description update exactly when the computed description
\* differs from the stored one; for a record with no card it issues exactly one
\* create, in the Weekly list, with the computed title, description and due date.
C4_ReconcileBranches ==
    RealRun =>
        \A item \in RunItems :
            IF item.found # 0
            THEN /\ \E o \in OpsOf(item) : o.op = "updateDue" /\ o.card = item.found
                 /\ "create" \notin OpNames(item)
                 /\ ("updateDesc" \in OpNames(item)) <=> (item.desc # item.stored)
                 /\ \A o \in OpsOf(item) :
                       o.op = "updateDesc" => (o.card = item.found /\ o.desc = item.desc)
            ELSE /\ Len(item.ops) = 1
                 /\ item.ops[1].op = "create"
                 /\ item.ops[1].list = WeeklyList
                 /\ item.ops[1].name = item.title
                 /\ item.ops[1].desc = item.desc
                 /\ item.ops[1].due = item.due

\* C5: after a run, the card of a record that had one before the run carries the
\* prefix "REDO - " no longer if it carried it and the grade is passing now, and
\* carries it if it did not and the grade is below the threshold now.
C5_RedoTitleFollowsGrade ==
    RealRun =>
        \A item \in RunItems :
            (item.owner # 0 /\ item.found = item.owner /\ HasCard(cards, item.owner)) =>
                LET before == HasPrefix(item.storedName, RedoPrefix)
                    after == HasPrefix(CardById(cards, item.owner).name, RedoPrefix)
                IN /\ (before /\ ~item.needsRedo) => ~after
                   /\ (~before /\ item.needsRedo) => after

\* needsRedo as the percentage rule states it, on the grade the source holds
PercentNeedsRedo(grade) ==
    /\ grade.present /\ grade.scored
    /\ grade.possible > 0
    /\ grade.score * 100 < RedoThreshold * grade.possible

\* C6: in either sync, needsRedo holds exactly when a grade is present, its
\* maximum is above 0 and score / maximum * 100 is below 90.
C6_NeedsRedoIsPercentage ==
    lastRun.source # "none" /\ ~lastRun.err =>
        \A item \in RunItems : item.needsRedo <=> PercentNeedsRedo(item.grade)

\* the instant of the source's due date, NoDue if it has none
SourceDue(rec) ==
    IF "DueAt" \in DOMAIN rec
    THEN (IF rec.DueAt.kind # "empty" /\ ParseRFC3339(rec.DueAt).ok
          THEN ParseRFC3339(rec.DueAt).t.inst ELSE NoDue)
    ELSE (IF rec.DueDateUnix > 0 THEN rec.DueDateUnix ELSE NoDue)

\* C7: the due date a run sends, on create and on update, is the run's time plus
\* 7 days when needsRedo holds, else the instant of the source's due date, else
\* none.
C7_DueDateRule ==
    RealRun =>
        \A item \in RunItems :
            \A o \in OpsOf(item) :
                o.op \in {"create", "updateDue"} =>
                    o.due = IF item.needsRedo THEN lastRun.now + RedoDays * Day
                            ELSE SourceDue(item.rec)

\* the text the source holds for a record
RemoteText(rec) == IF "Description" \in DOMAIN rec THEN rec.Description ELSE rec.Intro

\* the number of metadata blocks in a description
Blocks(desc) == SplitLen(desc, Sep) - 1

\* C10: the description a run computes for a record starts with the remote text
\* less any block appended to it and holds exactly one metadata block, and so
\* does every card a sync created.
C10_ExactlyOneBlock ==
    /\ RealRun =>
          \A item \in RunItems :
              /\ Blocks(item.desc) = 1
              /\ SplitFirst(item.desc, Sep)
                     \in {stripCanvasMetadata(RemoteText(item.rec)),
                          TrimSpace(stripCanvasMetadata(RemoteText(item.rec)))}
    /\ \A k \in Keys :
          (owner[k] # 0 /\ HasCard(cards, owner[k])) =>
              Blocks(CardById(cards, owner[k]).desc) = 1

-----------------------------------------------------------------------------
(* C11: what a metadata block holds. *)

\* the line "field: value" of a block (the last line has no newline after it)
HasLine(block, field, value) == Contains(block, <<NL, field>> \o value)

\* the grade text for a graded value v printed as shown: REDO NEEDED below 90
GradeText(shown, below) == shown \o (IF below THEN <<" (REDO NEEDED)">> ELSE <<>>)

\* the grade text the block of the last formatter call must hold
ExpectedGradeText ==
    LET g == textOut.arg.grade
    IN IF textOut.fn = "formatCanvas"
       THEN (IF g.present /\ g.scored
             THEN GradeText(FormatScore(g.score), g.score < RedoThreshold)
             ELSE <<"Not graded">>)
       ELSE (IF g.present /\ g.GradeMax > 0
             THEN GradeText(FormatPercentage(g.Grade, g.GradeMax),
                            g.Grade * 100 < RedoThreshold * g.GradeMax)
             ELSE <<"Not graded">>)

\* C11: every block a formatter returns holds "<Source> Assignment ID: <id>" and
\* "Course: <name>", and its grade field is "Not graded" without a score, else
\* the percentage to one decimal with " (REDO NEEDED)" exactly below 90
\* (85 gives "85.0% (REDO NEEDED)", 95 gives "95.0%").
C11_BlockContents ==
    textOut.fn \in {"formatCanvas", "formatMoodle"} =>
        LET source == IF textOut.fn = "formatCanvas" THEN "Canvas " ELSE "Moodle "
            a == textOut.arg
        IN /\ Contains(textOut.out,
                       Sep \o <<source, "Assignment", " ID: ">> \o Digits(a.rec.ID) \o <<NL>>)
           /\ HasLine(textOut.out, "Course: ", a.course \o <<NL>>)
           /\ HasLine(textOut.out, "Grade: ", ExpectedGradeText \o <<NL>>)
           /\ (a.grade = Scored(85, 100) \/ a.grade = MoodleGrade(85, 100))
                 => HasLine(textOut.out, "Grade: ",
                            <<"8", "5", ".", "0", "%", " (REDO NEEDED)", NL>>)
           /\ (a.grade = Scored(95, 100) \/ a.grade = MoodleGrade(95, 100))
                 => HasLine(textOut.out, "Grade: ", <<"9", "5", ".", "0", "%", NL>>)

-----------------------------------------------------------------------------
(* C12: a Moodle record with a passing grade is left alone. *)

-----------------------------------------------------------------------------
(* C13: a failure for one assignment does not abort the batch. *)

\* the board's cards are in due-date order, undated last
SortedByDue(cs) == \A i \in 1..(Len(cs) - 1) : ~LessByDue(cs[i + 1], cs[i])

\* the fallback course name of a record
FallbackName(rec) == <<"Course ">> \o Digits(rec.CourseID)

\* C13: in a run in which one call failed for one assignment the sync returns
\* success, every assignment of the batch is processed in order, the calls of
\* every other assignment succeed and their new cards are on the board, the
\* failing assignment goes on with the name "Course <id>" or with a nil grade,
\* and the final sort has run.
C13_FailureDoesNotAbort ==
    (lastRun.source # "none" /\ lastRun.failure # NoFailure) =>
        LET items == lastRun.items
            bad == lastRun.failure.item
        IN /\ ~lastRun.err
           /\ lastRun.sorted /\ SortedByDue(cards)
           /\ Len(items) = Len(lastRun.batch)
           /\ \A i \in DOMAIN items :
                 /\ items[i].rec = lastRun.batch[i]
                 /\ items[i].ops # <<>>
                 /\ i # bad =>
                       \A o \in OpsOf(items[i]) :
                           /\ o.ok
                           /\ o.op = "create" =>
                                 /\ HasCard(cards, o.card)
                                 /\ CardById(cards, o.card).desc = items[i].desc
           /\ lastRun.failure.call = "course" =>
                 /\ Contains(items[bad].title,
                             CardTitle(FallbackName(items[bad].rec), items[bad].rec.Name))
                 /\ HasLine(items[bad].desc, "Course: ",
                            FallbackName(items[bad].rec) \o <<NL>>)
           /\ lastRun.failure.call = "submission" =>
                 /\ ~items[bad].needsRedo
                 /\ HasLine(items[bad].desc, "Grade: ", <<"Not graded", NL>>)
           /\ lastRun.failure.call = "board" =>
                 \A o \in OpsOf(items[bad]) :
                     ~o.ok /\ (o.op = "create" => ~HasCard(cards, o.card))

\* the create for the first assignment failed and the card of the second one
\* was created all the same
C13_Witness ==
    /\ lastRun.source = "canvas"
    /\ lastRun.failure = [item |-> 1, call |-> "board"]
    /\ Len(lastRun.items) = 2
    /\ lastRun.items[1].ops[1].op = "create" /\ ~lastRun.items[1].ops[1].ok
    /\ lastRun.items[2].ops[1].op = "create" /\ lastRun.items[2].ops[1].ok
    /\ HasCard(cards, lastRun.items[2].ops[1].card)
    /\ Len(cards) = 1

-----------------------------------------------------------------------------
(* C14, C15, C16: the name lookups. *)

\* the entries a lookup may return: every board, or the lists of the board asked for
Candidates ==
    {i \in DOMAIN search.entries :
        search.fn = "list" => search.entries[i].BoardID = search.boardID}

ExactMatches ==
    {i \in Candidates : normalizeString(search.entries[i].Name) = normalizeString(search.query)}

PartialMatches ==
    {i \in Candidates :
        Contains(normalizeString(search.entries[i].Name), normalizeString(search.query))}

\* the least element of a non-empty set of indices, 0 for the empty set
First(S) == IF S = {} THEN 0 ELSE CHOOSE i \in S : \A j \in S : i <= j

\* C14: findBoardByName and findListByName return the (first) exact normalized
\* match whenever there is one, wherever it sits among entries that only contain
\* the query; without an exact match they return the first entry, in input
\* order, whose normalized name contains the normalized query.
C14_ExactBeforePartial ==
    (search.fn \in {"board", "list"} /\ search.done) =>
        IF ExactMatches # {} THEN search.result = First(ExactMatches)
        ELSE search.result = First(PartialMatches)

\* an exact match was returned from behind an entry that only contains the query
C14_Witness ==
    /\ search.fn = "board" /\ search.done
    /\ search.result = 2
    /\ 2 \in ExactMatches
    /\ 1 \in PartialMatches \ ExactMatches

\* C15: findListByName never returns a list of another board than the one asked
\* for, and returns the error when no list of that board matches, also when a
\* list of another board matches exactly.
C15_OnlyListsOfTheBoard ==
    (search.fn = "list" /\ search.done) =>
        /\ search.result # 0 => search.entries[search.result].BoardID = search.boardID
        /\ PartialMatches = {} => search.result = 0

\* the only exact match is a list of another board, and the lookup failed
C15_Witness ==
    /\ search.fn = "list" /\ search.done
    /\ search.result = 0
    /\ search.query # <<>>
    /\ \E i \in DOMAIN search.entries :
          /\ search.entries[i].BoardID # search.boardID
          /\ normalizeString(search.entries[i].Name) = normalizeString(search.query)

\* strings.ToUpper, on the letters of the model
ToUpper(s) == [i \in DOMAIN s |-> CASE s[i] = "a" -> "A" [] s[i] = "b" -> "B" [] OTHER -> s[i]]

\* s in the other case and with whitespace around it
Variants(s) ==
    {ToUpper(s), ToLower(s), <<" ">> \o s, s \o <<" ", NL>>, <<NL>> \o ToUpper(s) \o <<" ">>}

\* C16: normalizeString applied to its own result returns it unchanged, the
\* empty string normalizes to itself, and strings that differ only in case or
\* surrounding whitespace normalize to the same string.
C16_NormalizeIdempotent ==
    (search.fn = "normalize" /\ search.done) =>
        /\ search.again = search.norm
        /\ search.query = <<>> => search.norm = <<>>
        /\ \A v \in Variants(search.query) : normalizeString(v) = search.norm

\* a padded mixed-case string was normalized to a different string
C16_Witness ==
    /\ search.fn = "normalize" /\ search.done
    /\ search.query = <<" ", "A", "a", " ">>
    /\ search.norm = <<"a", "a">>
    /\ search.again = search.norm

-----------------------------------------------------------------------------
(* C17: the target order of the due-date sort. *)

\* a before b in the order the sort must compute: an earlier due date first, a
\* dated card before an undated one, and the list's order between cards that
\* have the same due date or none (a card's id is its place in the list)
StablyBefore(a, b) ==
    \/ a.due # NoDue /\ b.due # NoDue /\ a.due < b.due
    \/ a.due # NoDue /\ b.due = NoDue
    \/ a.due = b.due /\ a.id < b.id

\* C17: for a list of any length the target order holds the cards of the list,
\* dated ones first in ascending due date, undated ones after them, with cards
\* of equal due date and undated cards in the order they had in the list.
C17_TargetOrderStable ==
    sorter.done =>
        /\ Len(sorter.target) = Len(sorter.input)
        /\ {sorter.target[i] : i \in DOMAIN sorter.target}
              = {sorter.input[i] : i \in DOMAIN sorter.input}
        /\ \A i, j \in DOMAIN sorter.target :
              i < j => StablyBefore(sorter.target[i], sorter.target[j])

-----------------------------------------------------------------------------
(* C18: the sunset cache. *)

\* the cache file is a parsed cache for loc, unexpired, holding today's date
FreshFor(file, loc) ==
    /\ file.kind = "cache"
    /\ file.loc = loc
    /\ sun.now <= file.until
    /\ Today(sun.now, zone) \in file.data

\* the cache file is a parsed cache, but expired or stored for another place
StaleFor(file, loc) ==
    file.kind = "cache" /\ (sun.now > file.until \/ file.loc # loc)

-----------------------------------------------------------------------------
(* C19: only the sundown notification deletes cards. *)

\* C19: a card leaves the board only in a run of the sundown notification and
\* only from the notification list; and after a successful run of the sundown
\* notification that list holds exactly one card, the one for today.
C19_OnlySundownDeletes ==
    /\ [][\A i \in DOMAIN cards :
             ~HasCard(cards', cards[i].id) =>
                 (lastRun'.source = "sundown" /\ cards[i].list = SundownList)]_vars
    /\ [](lastRun.source = "sundown" /\ ~lastRun.err =>
             LET inList == GetCardsInList(cards, SundownList)
             IN /\ Len(inList) = 1
                /\ inList[1].name = SundownTitle(lastRun.now, lastRun.tz)
                /\ inList[1].id = nextCard - 1)

\* a successful sundown run took two cards off the notification list, next to
\* cards of the other lists that are still there
C19_Witness ==
    /\ lastRun.source = "sundown" /\ ~lastRun.err
    /\ Len(GetCardsInList(cards, SundownList)) = 1
    /\ Cardinality({id \in 1..(nextCard - 1) : ~HasCard(cards, id)}) = 2
    /\ Len(cards) > 1

-----------------------------------------------------------------------------
(* C20: the Moodle dry run. *)

\* the run that just ended was a Moodle run that reached its loop
MoodleRan(run, dryRun) == run.source = "moodle" /\ run.dryRun = dryRun /\ ~run.err

\* C20: a Moodle dry run leaves every card, the order of the cards and the card
\* counter as they were; and a real run started right after a dry run issues, for
\* each assignment, a create where the dry run announced a create and updates of
\* the card found where it announced an update.
C20_DryRunChangesNothing ==
    [][/\ MoodleRan(lastRun', TRUE) => (cards' = cards /\ nextCard' = nextCard)
       /\ (MoodleRan(lastRun, TRUE) /\ MoodleRan(lastRun', FALSE)) =>
             /\ Len(lastRun'.items) = Len(lastRun.items)
             /\ \A i \in DOMAIN lastRun.items :
                   LET said == lastRun.items[i]
                       did == lastRun'.items[i]
                   IN /\ did.rec = said.rec
                      /\ said.plan \in {"create", "update"}
                      /\ said.plan = "create" <=>
                            (\E o \in OpsOf(did) : o.op = "create")
                      /\ said.plan = "update" <=>
                            (\E o \in OpsOf(did) :
                                o.op = "updateDue" /\ o.card = said.found)]_vars

\* a dry run over a board that holds the card of an assignment announced an
\* update of that card
C20_Witness ==
    /\ MoodleRan(lastRun, TRUE)
    /\ \E i \in DOMAIN lastRun.items :
          /\ lastRun.items[i].plan = "update"
          /\ HasCard(cards, lastRun.items[i].found)

-----------------------------------------------------------------------------
(* C21: a missing or malformed board cache is a hard error. *)

\* C21: while trello_cache.json is absent or malformed, every run of a sync, of
\* the daily reset, of the weekly creation and of the sundown notification
\* returns an error and leaves every card, the order of the cards and the card
\* counter as they were.
C21_NoCacheNoWrites ==
    [][(cacheFile # "valid" /\ lastRun'.source # "none") =>
          (lastRun'.err /\ cards' = cards /\ nextCard' = nextCard)]_vars

\* the sundown notification failed on a malformed cache, with a card on its list
\* that it would have deleted
C21_Witness ==
    /\ cacheFile = "malformed"
    /\ lastRun.source = "sundown" /\ lastRun.err
    /\ GetCardsInList(cards, SundownList) # <<>>

-----------------------------------------------------------------------------
(* C22: configuration errors come before any remote call. *)

\* C22: a run that ends in a configuration error (missing credentials, a date
\* flag or variable that does not parse) has called no remote service.
C22_ConfigErrorBeforeRemote ==
    (cli.done /\ cli.did.fatal \in ConfigErrors) => cli.did.calls = <<>>

-----------------------------------------------------------------------------
(* C23: how the target order is applied to the list. *)

\* C23: on a list of two or more cards the sort sends one move to the top per
\* card, from the last-ranked to the first-ranked; when no move fails the list
\* then reads, top to bottom, as the target order; on a list of no or one card it
\* sends no move and the list stays as it is.
C23_MovesApplyTarget ==
    sorter.done =>
        IF Len(sorter.input) <= 1
        THEN sorter.moves = <<>> /\ sorter.after = sorter.input
        ELSE /\ Len(sorter.moves) = Len(sorter.target)
             /\ \A k \in DOMAIN sorter.moves :
                   sorter.moves[k] = sorter.target[Len(sorter.target) + 1 - k].id
             /\ sorter.failing = {} => sorter.after = sorter.target

\* three cards out of order were put in order by three moves
C23_Witness ==
    /\ sorter.done
    /\ Len(sorter.input) = 3
    /\ sorter.failing = {}
    /\ sorter.target # sorter.input
    /\ sorter.target[1].id = 3
    /\ sorter.after = sorter.target

-----------------------------------------------------------------------------
(* C24: when the sunset cache counts as valid, and what a miss writes. *)

\* C24: a request is answered from the cache only when the stored place is the
\* requested one and the time is strictly before the cache's valid-until instant
\* (at that very instant it is a miss); a cache written by a fetch is valid until
\* the start of the day after the last day of the fetched 30-day window and
\* holds no date outside that window.
C24_ValidOnlyBeforeValidUntil ==
    \A i \in DOMAIN sun.log :
        LET r == sun.log[i]
        IN /\ r.fetches = 0 => (r.before.loc = r.loc /\ sun.now < r.before.until)
           /\ (r.fetches = 1 /\ ~r.err) =>
                 /\ r.after.until = (r.window[2] + 1) * Day
                 /\ r.after.data = r.window[1]..r.window[2]

-----------------------------------------------------------------------------
(* C25: the errors of the sunset lookup. *)

\* C25: a request whose fetch is answered without a usable entry for today
\* returns an error and no time; a request whose fetch fails (no answer, a
\* status other than 200, an unreadable body) returns an error and no time and
\* leaves the cache file as it found it; and no request returns an empty time
\* without an error.
C25_SundownErrors ==
    \A i \in DOMAIN sun.log :
        LET r == sun.log[i]
        IN /\ r.reply = "no-today" => (r.err /\ r.time = NoTime)
           /\ ProviderFailed(r.reply) => (r.err /\ r.time = NoTime /\ r.after = r.before)
           /\ ~r.err => r.time = SunsetOf(Today(sun.now, zone))

\* a fetch that failed over an expired cache, then one answered without today
C25_Witness ==
    /\ Len(sun.log) = 2
    /\ sun.log[1].before.kind = "cache"
    /\ sun.log[1].reply = "status"
    /\ sun.log[1].after = sun.log[1].before
    /\ sun.log[2].reply = "no-today"
    /\ sun.log[2].after # sun.log[2].before
    /\ sun.log[2].err

-----------------------------------------------------------------------------
(* C26: the Moodle sync works without grades. *)

\* C26: in every Moodle run the grade of every record is absent: no record the
\* run fetched is skipped as passing (a run without error has one item per
\* upcoming record, in order), no title the run computes starts with "REDO - ",
\* and every metadata block reads "Grade: Not graded".
C26_MoodleGradeAbsent ==
    lastRun.source = "moodle" =>
        /\ \A item \in RunItems :
              /\ item.grade = NoGrade
              /\ ~item.needsRedo
              /\ ~HasPrefix(item.title, RedoPrefix)
              /\ HasLine(item.desc, "Grade: ", <<"Not graded">>)
        /\ ~lastRun.err =>
              [i \in DOMAIN lastRun.items |-> lastRun.items[i].rec]
                  = MoodleGetUpcomingAssignments(moodleEdit, lastRun.now,
                                                 lastRun.now + 60 * Day)

\* a run created the card of a quiz the student has passed, marked "Not graded"
C26_Witness ==
    /\ RealRun
    /\ lastRun.source = "moodle"
    /\ \E item \in RunItems :
          /\ MoodlePassing(item.remote)
          /\ item.plan = "create"
          /\ item.ops # <<>>
          /\ item.ops[1].ok
          /\ HasLine(item.desc, "Grade: ", <<"Not graded">>)

-----------------------------------------------------------------------------
(* C27: the daily reset. *)

\* the card as a reset leaves it: due at 23:00 (23:59:59 to the hour) of the
\* day after the run's local day, not complete
ResetCard(c) ==
    [c EXCEPT !.due = (Today(clock, zone) + 1) * Day + 23, !.dueComplete = FALSE]

\* the number of cards of the list among the first i cards of the board
RankInList(cs, listID, i) == Cardinality({j \in 1..i : cs[j].list = listID})

\* the board after a reset that updated the first k cards of the Daily list
ResetFirst(k) ==
    [i \in DOMAIN cards |->
        IF cards[i].list = DailyList /\ RankInList(cards, DailyList, i) <= k
        THEN ResetCard(cards[i]) ELSE cards[i]]

-----------------------------------------------------------------------------
(* C28: which Canvas assignments count as upcoming. *)

\* the assignment has a due date that parses, strictly after one day before
\* the run and strictly before 14 days after it
InWindow(a) ==
    /\ a.DueAt.kind = "ok"
    /\ a.DueAt.wall - a.DueAt.off > clock - Day
    /\ a.DueAt.wall - a.DueAt.off < clock + 14 * Day

\* C28: the Canvas filter keeps, in the order fetched, exactly the assignments
\* whose due date parses and lies strictly after now - 1 day and strictly before
\* now + 14 days; one without due date, with a due date that does not parse, due
\* a day ago or earlier, or due in 14 days or later, is not kept.
C28_UpcomingWindow ==
    upcoming.done => upcoming.kept = SelectSeq(upcoming.input, InWindow)

\* of an assignment due exactly one day ago and one due an hour later, written
\* in another zone, the filter kept the second only
C28_Witness ==
    /\ upcoming.done
    /\ Len(upcoming.input) = 2
    /\ upcoming.input[1].DueAt = DueAtString(clock - Day, 0)
    /\ upcoming.input[2].DueAt.kind = "ok"
    /\ upcoming.input[2].DueAt.off # zone
    /\ upcoming.kept = <<upcoming.input[2]>>

-----------------------------------------------------------------------------
(* C29: the marker lookup matches whole ids. *)

\* the text holds the marker literal pat followed by no further digit: it
\* encodes exactly the id pat ends with
EncodesExactly(desc, pat) ==
    \E i \in 1..(Len(desc) - Len(pat) + 1) :
        /\ SubSeq(desc, i, i + Len(pat) - 1) = pat
        /\ (i + Len(pat) <= Len(desc)) => desc[i + Len(pat)] \notin {DigitChars[d] : d \in DOMAIN DigitChars}

\* C29: the card a run's lookup returns for the record with id N carries the
\* marker of exactly N, never only the marker of a longer id that begins with
\* the digits of N.
C29_LookupMatchesWholeId ==
    lastRun.source \in {"canvas", "moodle"} =>
        \A item \in RunItems :
            item.found # 0 => EncodesExactly(item.stored, SearchedMarker(item.key))

-----------------------------------------------------------------------------
(* C30: the sundown notification and its errors. *)

\* C30: a run of the sundown notification that returns an error (list not found,
\* sunset not available, card not created, comment not added) leaves on the
\* sundown list the cards the list had; the list does not end empty.
C30_SundownAllOrNothing ==
    [][(lastRun'.source = "sundown" /\ lastRun'.err) =>
          GetCardsInList(cards', SundownList) = GetCardsInList(cards, SundownList)]_vars

=============================================================================
